---- MODULE Spec2Model ----
(***************************************************************************)
(* Documentation indexer of cc-devtools: format parsers, chunk assembler,  *)
(* scanner / incremental update, index store, watcher and search handler.  *)
(*                                                                         *)
(* Strings are modelled as non-empty sequences of lines (the result of     *)
(* split('\n')); the empty string is the one-line sequence <<Blank>>.  A    *)
(* line is a record: its kind (blank, plain text, Markdown heading,        *)
(* AsciiDoc heading, or a run of one RST adornment character), its level   *)
(* or adornment character, its text and its length in characters.  Lines   *)
(* carry no leading or trailing white space and no white-space-only line   *)
(* occurs, so trim() removes leading and trailing blank lines only.        *)
(* Line numbers are 0-based as in the source.                              *)
(***************************************************************************)
EXTENDS Integers, Sequences, FiniteSets, TLC

VARIABLES
  pExt,      \* parser development: extension of the file being processed
  pDoc,      \* parser development: content of the file (sequence of lines)
  pStage,    \* parser development: "read" | "parsed" | "merged" | "split"
  pChunks,   \* parser development: ParsedChunk[] after the current stage
  now,       \* Date.now()
  disk,      \* the documentation files: version of the content (0: no file), mtime
  store,     \* the persisted index file
  index,     \* index.ts: let index (NoIndex is null)
  isIndexing,       \* indexingProgress.isIndexing
  initPc,    \* where initialize() stands
  scan,      \* the running scanAndIndexDocumentation: its local index and position
  tasks,     \* the running updateIndexForFiles calls: 0 is validateAndSyncIndex's,
             \* 1.. are the watcher callback's
  batches,   \* number of batches the watcher has flushed
  watcher,   \* createFileWatcher: started, pendingChanges, batchTimer
  embeddingsState,  \* index.ts: available, lastAttempt
  retries,   \* initializeModel() calls in flight that a search request started
  response,  \* what the last search_docs request was answered
  fsBudget,  \* file-system changes still to come
  skipped,   \* files the ignore rules match or of 5 MiB and more
  rtStage,   \* storage development: "input" | "saved" | "loaded" | "lockFailed"
  rtLoaded,  \* storage development: what loadIndex returned
  wDue,      \* watcher development: when batchTimer is due
  wAccepted, \* watcher development: paths queued since the last flush
  wAcceptedAt,  \* watcher development: time of the last queued event
  wLast,     \* watcher development: the last chokidar event
  wEvents,   \* watcher development: number of chokidar events so far
  wBatch,    \* watcher development: the files of the last onChange(files)
  sQuery,    \* search development: query
  sMode,     \* search development: mode
  sFilters,  \* search development: filters
  sLimit,    \* search development: limit
  sVector,   \* search development: what generateEmbedding(query) resolves to
  sStage,    \* search development: "idle" | "asked" | "answered"
  sResults,  \* search development: what searchDocumentation returned
  lockHolder,  \* lock development: the call that holds the lock of indexPath (0: free)
  calls      \* lock development: the saveIndex / loadIndex calls of each process

storeVars == <<rtStage, rtLoaded>>

watchVars == <<wDue, wAccepted, wAcceptedAt, wLast, wEvents, wBatch>>

searchVars == <<sQuery, sMode, sFilters, sLimit, sVector, sStage, sResults>>

lockVars == <<lockHolder, calls>>

parseVars == <<pExt, pDoc, pStage, pChunks>>

engineVars == <<now, disk, store, index, isIndexing, initPc, scan, tasks, batches,
                watcher, embeddingsState, retries, response, fsBudget, skipped>>

\* what the engine's steps leave alone
sideVars == <<pExt, pDoc, pStage, pChunks, rtStage, rtLoaded,
              wDue, wAccepted, wAcceptedAt, wLast, wEvents, wBatch,
              sQuery, sMode, sFilters, sLimit, sVector, sStage, sResults,
              lockHolder, calls>>

vars == <<pExt, pDoc, pStage, pChunks, now, disk, store, index, isIndexing, initPc,
          scan, tasks, batches, watcher, embeddingsState, retries, response, fsBudget,
          skipped,
          rtStage, rtLoaded, wDue, wAccepted, wAcceptedAt, wLast, wEvents, wBatch,
          sQuery, sMode, sFilters, sLimit, sVector, sStage, sResults,
          lockHolder, calls>>

-----------------------------------------------------------------------------
(* Bounds of the model and constants of the program                        *)

MaxLines == 4          \* longest document enumerated by the parser development
ShortLen == 5          \* characters in a short line / heading text / adornment
LongLen == 1200        \* characters in a long line (a paragraph of 300 tokens)

MaxTicks == 3          \* steps of the clock
MaxFsEvents == 2       \* file-system changes after start-up
MaxBatches == 2        \* batches the watcher flushes
MaxDriftTicks == 1     \* steps of the clock while the persisted index drifts
MaxRetries == 2        \* initializeModel() calls in flight from search requests

MaxWatchEvents == 3    \* chokidar events of the watcher development
MaxWatchTicks == 5     \* steps of its clock

MinTokens == 200       \* DEFAULT_CHUNKING_CONFIG.minTokens
MaxTokens == 500       \* DEFAULT_CHUNKING_CONFIG.maxTokens

RetryIntervalMs == 300000   \* embeddingsState.retryIntervalMs = 5 * 60 * 1000
T0 == RetryIntervalMs       \* the clock when the process starts
TickMs == RetryIntervalMs \div 2

RST_HEADING_CHARS == {"=", "-", "`", ":", ".", "'", "\"", "~", "^", "_", "*", "+", "#"}

-----------------------------------------------------------------------------
(* Lines and strings                                                       *)

Blank == [k |-> "blank", lv |-> 0, c |-> "", t |-> "", n |-> 0]
Text(t, n) == [k |-> "text", lv |-> 0, c |-> "", t |-> t, n |-> n]
MdHead(lv, t) == [k |-> "md", lv |-> lv, c |-> "#", t |-> t, n |-> lv + 1 + ShortLen]
AdHead(lv, t) == [k |-> "adoc", lv |-> lv, c |-> "=", t |-> t, n |-> lv + 1 + ShortLen]
Rule(c, n) == [k |-> "rule", lv |-> 0, c |-> c, t |-> c, n |-> n]

EmptyStr == <<Blank>>

IsBlank(l) == l.k = "blank"

\* lines[i] ?? ''
LineAt(lines, i) == IF i >= 0 /\ i < Len(lines) THEN lines[i + 1] ELSE Blank

\* first character of a line: text starts with a letter
FirstChar(l) == IF l.k = "text" THEN "a" ELSE l.c

RECURSIVE SumLen(_)
SumLen(s) == IF s = <<>> THEN 0 ELSE Head(s).n + SumLen(Tail(s))

\* string.length of the lines joined by '\n'
StrLen(s) == IF s = <<>> THEN 0 ELSE SumLen(s) + Len(s) - 1

RECURSIVE TrimStart(_)
TrimStart(s) ==
  IF Len(s) > 1 /\ IsBlank(s[1]) THEN TrimStart(Tail(s)) ELSE s

RECURSIVE TrimEnd(_)
TrimEnd(s) ==
  IF Len(s) > 1 /\ IsBlank(s[Len(s)]) THEN TrimEnd(SubSeq(s, 1, Len(s) - 1)) ELSE s

\* String.prototype.trim on the joined lines
Trim(s) == IF s = <<>> THEN EmptyStr ELSE TrimEnd(TrimStart(s))

\* `${a}\n\n${b}`
JoinPara(a, b) == a \o <<Blank>> \o b

RECURSIVE BlankRunEnd(_, _)
BlankRunEnd(s, k) ==
  IF k + 1 <= Len(s) - 1 /\ IsBlank(s[k + 1]) THEN BlankRunEnd(s, k + 1) ELSE k

\* s.split(/\n\s*\n/): a match starts at the newline that ends line i when
\* line i+1 is blank and is itself followed by a newline, and greedily takes
\* every following blank line that is followed by a newline.
RECURSIVE SplitFrom(_, _, _)
SplitFrom(s, from, i) ==
  IF i >= Len(s) THEN <<SubSeq(s, from, Len(s))>>
  ELSE IF IsBlank(s[i + 1]) /\ i + 1 < Len(s)
       THEN LET j == BlankRunEnd(s, i + 1)
            IN  <<SubSeq(s, from, i)>> \o SplitFrom(s, j + 1, j + 1)
       ELSE SplitFrom(s, from, i + 1)

SplitParagraphs(s) == SplitFrom(s, 1, 1)

estimateTokenCount(text) == (StrLen(text) + 3) \div 4

-----------------------------------------------------------------------------
(* parser.ts: createChunk and the four parsers                             *)

\* content.replace(/^#{1,6}\s+.+$/gm, '').trim(), then the first line
extractFirstSentence(content) ==
  LET withoutHeadings ==
        Trim([i \in 1..Len(content) |->
                IF content[i].k = "md" THEN Blank ELSE content[i]])
  IN  withoutHeadings[1].t

detectChunkType(content) ==
  IF content[1].k = "md" THEN "heading" ELSE "paragraph"

\* null is the empty sequence, a chunk the one-element sequence
createChunk(lines, startLine, endLine, headingStack) ==
  LET content == Trim(lines)
  IN  IF content = EmptyStr THEN <<>>
      ELSE << [headings |-> [i \in 1..Len(headingStack) |-> headingStack[i].text],
               firstSentence |-> extractFirstSentence(content),
               chunkType |-> detectChunkType(content),
               content |-> content,
               startLine |-> startLine,
               endLine |-> endLine] >>

\* the stack with nothing popped
PopHeadingsKeepAll(stack, level) == stack

RECURSIVE PopHeadings(_, _)
PopHeadings(stack, level) ==
  IF Len(stack) > 0 /\ stack[Len(stack)].level >= level
  THEN PopHeadings(SubSeq(stack, 1, Len(stack) - 1), level)
  ELSE stack

PushHeading(stack, level, text, i) ==
  Append(PopHeadings(stack, level), [level |-> level, text |-> text, line |-> i])

ParseStart == [chunks |-> <<>>, stack |-> <<>>, start |-> 0, cur |-> <<>>,
               levels |-> <<>>]

\* "Save last chunk"
SaveLast(lines, st) ==
  IF Len(st.cur) > 0
  THEN st.chunks \o createChunk(st.cur, st.start, Len(lines) - 1, st.stack)
  ELSE st.chunks

RECURSIVE MarkdownLoop(_, _, _)
MarkdownLoop(lines, i, st) ==
  IF i >= Len(lines) THEN st
  ELSE LET line == LineAt(lines, i)
       IN  IF line.k = "md" /\ line.lv >= 1 /\ line.lv <= 6
           THEN MarkdownLoop(lines, i + 1,
                  [st EXCEPT
                     !.chunks = IF Len(st.cur) > 0
                                THEN @ \o createChunk(st.cur, st.start, i - 1, st.stack)
                                ELSE @,
                     !.stack = PushHeading(@, line.lv, line.t, i),
                     !.start = i,
                     !.cur = <<line>>])
           ELSE MarkdownLoop(lines, i + 1, [st EXCEPT !.cur = Append(@, line)])

parseMarkdown(content) == SaveLast(content, MarkdownLoop(content, 0, ParseStart))

RECURSIVE AsciiDocLoop(_, _, _)
AsciiDocLoop(lines, i, st) ==
  IF i >= Len(lines) THEN st
  ELSE LET line == LineAt(lines, i)
       IN  IF line.k = "adoc" /\ line.lv >= 1 /\ line.lv <= 6
           THEN AsciiDocLoop(lines, i + 1,
                  [st EXCEPT
                     !.chunks = IF Len(st.cur) > 0
                                THEN @ \o createChunk(st.cur, st.start, i - 1, st.stack)
                                ELSE @,
                     !.stack = PushHeading(@, line.lv, line.t, i),
                     !.start = i,
                     !.cur = <<line>>])
           ELSE AsciiDocLoop(lines, i + 1, [st EXCEPT !.cur = Append(@, line)])

parseAsciiDoc(content) == SaveLast(content, AsciiDocLoop(content, 0, ParseStart))

\* new RegExp(`^\\${underlineChar}+$`).test(l.trim())
IsRunOf(l, ch) == l.k = "rule" /\ l.c = ch

\* levels fixed per character: '=' is level 0, every other character level 1
LevelOfFixed(levels, ch, i) == IF ch = "=" THEN 0 ELSE 1

\* position (0-based) of ch in the discovery order, Len(levels) when unseen
RECURSIVE LevelOf(_, _, _)
LevelOf(levels, ch, i) ==
  IF i > Len(levels) THEN Len(levels)
  ELSE IF levels[i] = ch THEN i - 1 ELSE LevelOf(levels, ch, i + 1)

RECURSIVE RSTLoop(_, _, _)
RSTLoop(lines, i, st) ==
  IF i >= Len(lines) THEN st
  ELSE LET line == LineAt(lines, i)
           nextLine == LineAt(lines, i + 1)
           prevLine == LineAt(lines, i - 1)
           underlineChar == FirstChar(nextLine)
           isHeading ==
             /\ ~IsBlank(nextLine)
             /\ underlineChar \in RST_HEADING_CHARS
             /\ nextLine.n >= line.n
             /\ IsRunOf(nextLine, underlineChar)
             /\ line.n > 0
           hasOverline == ~IsBlank(prevLine) /\ IsRunOf(prevLine, underlineChar)
           level == LevelOf(st.levels, underlineChar, 1)
       IN  IF isHeading
           THEN RSTLoop(lines, i + 2,
                  [st EXCEPT
                     !.chunks = IF Len(st.cur) > 0
                                THEN @ \o createChunk(st.cur, st.start,
                                            i - 1 - (IF hasOverline THEN 1 ELSE 0),
                                            st.stack)
                                ELSE @,
                     !.levels = IF level = Len(@) THEN Append(@, underlineChar) ELSE @,
                     !.stack = PushHeading(@, level, line.t, i),
                     !.start = IF hasOverline THEN i - 1 ELSE i,
                     !.cur = IF hasOverline THEN <<prevLine, line, nextLine>>
                                            ELSE <<line, nextLine>>])
           ELSE RSTLoop(lines, i + 1, [st EXCEPT !.cur = Append(@, line)])

parseRST(content) == SaveLast(content, RSTLoop(content, 0, ParseStart))

RECURSIVE PlainTextLoop(_, _, _, _)
PlainTextLoop(paragraphs, p, lineOffset, chunks) ==
  IF p > Len(paragraphs) THEN chunks
  ELSE LET paragraph == paragraphs[p]
           trimmed == Trim(paragraph)
           lines == Len(paragraph)
       IN  IF trimmed = EmptyStr
           THEN PlainTextLoop(paragraphs, p + 1, lineOffset + lines, chunks)
           ELSE PlainTextLoop(paragraphs, p + 1, lineOffset + lines + 1,
                  Append(chunks,
                    [headings |-> <<>>,
                     firstSentence |-> extractFirstSentence(trimmed),
                     chunkType |-> "paragraph",
                     content |-> trimmed,
                     startLine |-> lineOffset,
                     endLine |-> lineOffset + lines - 1]))

parsePlainText(content) == PlainTextLoop(SplitParagraphs(content), 1, 0, <<>>)

-----------------------------------------------------------------------------
(* parser.ts: the chunk assembler                                          *)

\* one iteration of the loop of mergeSmallChunks; the accumulator is <<>>
\* (null) or <<chunk>>
MergeStep(m, chunk, minTokens) ==
  LET tokenCount == estimateTokenCount(chunk.content)
  IN  IF m.acc = <<>>
      THEN IF tokenCount < minTokens
           THEN [m EXCEPT !.acc = <<chunk>>]
           ELSE [m EXCEPT !.merged = Append(@, chunk)]
      ELSE LET accumulator == m.acc[1]
               combinedTokens == estimateTokenCount(accumulator.content) + tokenCount
           IN  IF combinedTokens < minTokens
               THEN [m EXCEPT !.acc =
                      << [accumulator EXCEPT
                            !.content = JoinPara(accumulator.content, chunk.content),
                            !.endLine = chunk.endLine,
                            !.firstSentence =
                               IF accumulator.firstSentence # ""
                               THEN accumulator.firstSentence
                               ELSE chunk.firstSentence] >>]
               ELSE IF tokenCount < minTokens
                    THEN [merged |-> Append(m.merged, accumulator), acc |-> <<chunk>>]
                    ELSE [merged |-> Append(Append(m.merged, accumulator), chunk),
                          acc |-> <<>>]

RECURSIVE MergeLoop(_, _, _, _)
MergeLoop(chunks, i, m, minTokens) ==
  IF i > Len(chunks) THEN m
  ELSE MergeLoop(chunks, i + 1, MergeStep(m, chunks[i], minTokens), minTokens)

mergeSmallChunks(chunks, minTokens) ==
  LET m == MergeLoop(chunks, 1, [merged |-> <<>>, acc |-> <<>>], minTokens)
  IN  m.merged \o m.acc

\* the loop over the paragraphs of one chunk that exceeds maxTokens; the
\* empty currentContent '' is EmptyStr
RECURSIVE SplitLoop(_, _, _, _, _)
SplitLoop(chunk, paragraphs, p, s, maxTokens) ==
  IF p > Len(paragraphs)
  THEN IF s.currentContent # EmptyStr
       THEN Append(s.result,
              [chunk EXCEPT !.content = s.currentContent,
                            !.startLine = s.currentStartLine,
                            !.endLine = s.currentStartLine + Len(s.currentContent) - 1])
       ELSE s.result
  ELSE LET paragraph == paragraphs[p]
           testContent == IF s.currentContent # EmptyStr
                          THEN JoinPara(s.currentContent, paragraph)
                          ELSE paragraph
           testTokens == estimateTokenCount(testContent)
           lineOffset == s.lineOffset + Len(paragraph) + 1
       IN  IF testTokens > maxTokens /\ s.currentContent # EmptyStr
           THEN SplitLoop(chunk, paragraphs, p + 1,
                  [result |-> Append(s.result,
                      [chunk EXCEPT !.content = s.currentContent,
                                    !.startLine = s.currentStartLine,
                                    !.endLine = s.currentStartLine
                                                + Len(s.currentContent) - 1]),
                   currentContent |-> paragraph,
                   currentStartLine |-> s.lineOffset,
                   lineOffset |-> lineOffset], maxTokens)
           ELSE SplitLoop(chunk, paragraphs, p + 1,
                  [s EXCEPT !.currentContent = testContent,
                            !.lineOffset = lineOffset], maxTokens)

\* a splitLargeChunks that leaves every chunk whole
SplitOneKeepWhole(chunk, maxTokens) == <<chunk>>

SplitOne(chunk, maxTokens) ==
  IF estimateTokenCount(chunk.content) <= maxTokens THEN <<chunk>>
  ELSE SplitLoop(chunk, SplitParagraphs(chunk.content), 1,
         [result |-> <<>>, currentContent |-> EmptyStr,
          currentStartLine |-> chunk.startLine, lineOffset |-> chunk.startLine],
         maxTokens)

RECURSIVE splitLargeChunks(_, _)
splitLargeChunks(chunks, maxTokens) ==
  IF chunks = <<>> THEN <<>>
  ELSE SplitOne(Head(chunks), maxTokens) \o splitLargeChunks(Tail(chunks), maxTokens)

\* processFile: the parser is chosen by the extension
ParseByExt(ext, content) ==
  IF ext \in {".md", ".markdown"} THEN parseMarkdown(content)
  ELSE IF ext = ".rst" THEN parseRST(content)
  ELSE IF ext \in {".adoc", ".asciidoc"} THEN parseAsciiDoc(content)
  ELSE parsePlainText(content)

\* processFile with DEFAULT_CHUNKING_CONFIG (splitAtHeadings = true)
ParsedChunksOf(ext, content) ==
  splitLargeChunks(mergeSmallChunks(ParseByExt(ext, content), MinTokens), MaxTokens)

-----------------------------------------------------------------------------
(* File paths, chunk ids and the context generator                         *)
(* A path is a sequence of tokens: "/" separates segments and a token that *)
(* begins with "." is an extension.  A chunk id is the path followed by    *)
(* ":" and the start line.                                                 *)

FileA == <<"/", "docs", "/", "a", ".md">>
FileB == <<"/", "b", ".txt">>
Files == {FileA, FileB}

\* the order in which readdir lists the tree
FileOrder == <<FileB, FileA>>

DOC_EXTENSIONS == {".md", ".markdown", ".txt", ".rst", ".adoc", ".asciidoc"}
DotTokens == DOC_EXTENSIONS \cup {".js", ".MD"}

\* extname(file).toLowerCase()
extname(file) ==
  IF file[Len(file)] = ".MD" THEN ".md"
  ELSE IF file[Len(file)] \in DotTokens THEN file[Len(file)] ELSE ""

IsPrefix(p, s) == Len(p) <= Len(s) /\ SubSeq(s, 1, Len(p)) = p

\* `${file}:${startLine}`
ChunkId(file, startLine) == file \o <<":", startLine>>

\* key.startsWith(`${file}:`)
KeyOfFile(key, file) == IsPrefix(file \o <<":">>, key)

\* filePath.split('/')
RECURSIVE SplitPath(_, _)
SplitPath(path, seg) ==
  IF path = <<>> THEN <<seg>>
  ELSE IF Head(path) = "/" THEN <<seg>> \o SplitPath(Tail(path), <<>>)
       ELSE SplitPath(Tail(path), Append(seg, Head(path)))

HasDot(seg) == \E i \in 1..Len(seg) : seg[i] \in DotTokens

docsDirNames == {<<"docs">>, <<"documentation">>, <<"doc">>, <<"guides">>, <<"wiki">>}

RECURSIVE CategoryLoop(_, _)
CategoryLoop(pathParts, i) ==
  IF i > Len(pathParts) THEN <<>>
  ELSE IF /\ pathParts[i] \in docsDirNames
          /\ i + 1 <= Len(pathParts)
          /\ pathParts[i + 1] # <<>>
          /\ ~HasDot(pathParts[i + 1])
       THEN pathParts[i + 1]
       ELSE CategoryLoop(pathParts, i + 1)

extractCategory(filePath) ==
  LET pathParts == SplitPath(filePath, <<>>)
      found == CategoryLoop(pathParts, 1)
      secondToLast == IF Len(pathParts) >= 2 THEN pathParts[Len(pathParts) - 1] ELSE <<>>
  IN  IF found # <<>> THEN found
      ELSE IF secondToLast # <<>> /\ ~HasDot(secondToLast) THEN secondToLast
      ELSE <<"general">>

\* "{category} > {hierarchy}: {firstSentence}" as its three parts; an empty
\* hierarchy or sentence leaves its part out of the string
generateContext(file, hierarchy, content) ==
  [category |-> extractCategory(file),
   hierarchy |-> hierarchy,
   sentence |-> extractFirstSentence(content)]

\* processFile: "Convert to DocChunks"
ToDocChunk(file, parsed) ==
  [id |-> ChunkId(file, parsed.startLine),
   file |-> file,
   startLine |-> parsed.startLine,
   endLine |-> parsed.endLine,
   content |-> parsed.content,
   context |-> generateContext(file, parsed.headings, parsed.content),
   hierarchy |-> parsed.headings,
   chunkType |-> parsed.chunkType,
   tokenCount |-> estimateTokenCount(parsed.content)]

ToDocChunks(file, parsedChunks) ==
  [i \in 1..Len(parsedChunks) |-> ToDocChunk(file, parsedChunks[i])]

processFile(file, content) ==
  ToDocChunks(file, ParsedChunksOf(extname(file), content))

-----------------------------------------------------------------------------
(* The embedding provider and Float32Array                                 *)

F32Step == 4   \* spacing of the values a Float32Array can hold, in units of
               \* the model's finest number

\* new Float32Array([x])[0]: the nearest representable value
ToFloat32(x) == ((x + F32Step \div 2) \div F32Step) * F32Step

\* Array.from(float32Array): every float32 is a double
FromFloat32(x) == x

TextCode(t) ==
  IF t = "" THEN 0 ELSE IF t = "A" THEN 1 ELSE IF t = "B" THEN 2
  ELSE IF t = "t" THEN 3 ELSE IF t = "L" THEN 4 ELSE 5

RECURSIVE HierCode(_)
HierCode(h) == IF h = <<>> THEN 0 ELSE TextCode(Head(h)) + 8 * HierCode(Tail(h))

\* generateEmbedding(text) when the provider answers: a vector that is a
\* function of the text alone
Embedding(context) ==
  << F32Step * Len(context.category[1]) + 1,
     F32Step * HierCode(context.hierarchy) + 1,
     F32Step * TextCode(context.sentence) + 1 >>

\* new Float32Array(embedding)
Float32Array(v) == [i \in 1..Len(v) |-> ToFloat32(v[i])]

-----------------------------------------------------------------------------
(* The in-memory index (types.ts DocIndex) and storage.ts                  *)

INDEX_VERSION == "1.0.0"

NoIndex == [null |-> TRUE]

createEmptyIndex(t) ==
  [chunks |-> <<>>, embeddings |-> <<>>,
   metadata |-> [version |-> INDEX_VERSION, indexedAt |-> t,
                 fileCount |-> 0, chunkCount |-> 0]]

MapDelete(m, key) == [x \in DOMAIN m \ {key} |-> m[x]]
MapSet(m, key, v) == (key :> v) @@ m

RECURSIVE SumOver(_, _)
SumOver(S, m) ==
  IF S = {} THEN 0
  ELSE LET x == CHOOSE y \in S : TRUE IN Len(m[x]) + SumOver(S \ {x}, m)

TotalChunks(chunks) == SumOver(DOMAIN chunks, chunks)

\* the chunk list removed, the embeddings left in place
RemoveFileChunksOnly(idx, file) == [idx EXCEPT !.chunks = MapDelete(@, file)]

\* "Remove old chunks and embeddings"
RemoveFile(idx, file) ==
  [idx EXCEPT
     !.chunks = MapDelete(@, file),
     !.embeddings = [key \in {x \in DOMAIN @ : ~KeyOfFile(x, file)} |-> @[key]]]

\* "Update metadata" of scanAndIndexDocumentation
ScanMetadata(idx) ==
  [idx EXCEPT !.metadata.fileCount = Cardinality(DOMAIN idx.chunks),
              !.metadata.chunkCount = TotalChunks(idx.chunks)]

\* "Update metadata" of updateIndexForFiles
UpdateMetadata(idx, t) ==
  [idx EXCEPT !.metadata.fileCount = Cardinality(DOMAIN idx.chunks),
              !.metadata.chunkCount = TotalChunks(idx.chunks),
              !.metadata.indexedAt = t]

\* index.embeddings.set(chunk.id, new Float32Array(embedding))
SetEmbedding(idx, chunk) ==
  [idx EXCEPT !.embeddings = MapSet(@, chunk.id, Float32Array(Embedding(chunk.context)))]

\* Array.from(map.entries()): the entries as a sequence
RECURSIVE Entries(_, _)
Entries(m, S) ==
  IF S = {} THEN <<>>
  ELSE LET x == CHOOSE y \in S : TRUE IN <<<<x, m[x]>>>> \o Entries(m, S \ {x})

\* new Map(entries)
RECURSIVE MapOf(_)
MapOf(entries) ==
  IF entries = <<>> THEN <<>>
  ELSE LET e == entries[Len(entries)]
       IN  (e[1] :> e[2]) @@ MapOf(SubSeq(entries, 1, Len(entries) - 1))

\* a serializer that leaves the vectors out
SerializeWithoutVectors(idx) ==
  [version |-> INDEX_VERSION,
   indexedAt |-> idx.metadata.indexedAt,
   fileCount |-> idx.metadata.fileCount,
   chunkCount |-> idx.metadata.chunkCount,
   chunks |-> Entries(idx.chunks, DOMAIN idx.chunks),
   embeddings |-> <<>>]

\* the SerializedIndex that saveIndex packs
Serialize(idx) ==
  [version |-> INDEX_VERSION,
   indexedAt |-> idx.metadata.indexedAt,
   fileCount |-> idx.metadata.fileCount,
   chunkCount |-> idx.metadata.chunkCount,
   chunks |-> Entries(idx.chunks, DOMAIN idx.chunks),
   embeddings |->
     LET es == Entries(idx.embeddings, DOMAIN idx.embeddings)
     IN  [i \in 1..Len(es) |->
            <<es[i][1], [j \in 1..Len(es[i][2]) |-> FromFloat32(es[i][2][j])]>>]]

\* the persisted file: absent, bytes msgpackr cannot decode, or a packed
\* SerializedIndex
NoStore == [kind |-> "missing"]
CorruptStore == [kind |-> "corrupt"]
Packed(serialized) == [kind |-> "packed", data |-> serialized]

\* saveIndex: what writeFileSync leaves on disk
saveIndex(idx) == Packed(Serialize(idx))

\* a loader that salvages a file of any schema version
loadIndexAnyVersion(file, lockFails) ==
  IF file.kind = "missing" THEN NoIndex
  ELSE IF lockFails \/ file.kind = "corrupt" THEN NoIndex
  ELSE LET serialized == file.data
       IN  [chunks |-> MapOf(serialized.chunks),
            embeddings |->
              MapOf([i \in 1..Len(serialized.embeddings) |->
                       <<serialized.embeddings[i][1],
                         Float32Array(serialized.embeddings[i][2])>>]),
            metadata |-> [version |-> serialized.version,
                          indexedAt |-> serialized.indexedAt,
                          fileCount |-> serialized.fileCount,
                          chunkCount |-> serialized.chunkCount]]

\* loadIndex: the index, or NoIndex for null
loadIndex(file, lockFails) ==
  IF file.kind = "missing" THEN NoIndex
  ELSE IF lockFails \/ file.kind = "corrupt" THEN NoIndex
  ELSE LET serialized == file.data
       IN  IF serialized.version # INDEX_VERSION THEN NoIndex
           ELSE [chunks |-> MapOf(serialized.chunks),
                 embeddings |->
                   MapOf([i \in 1..Len(serialized.embeddings) |->
                            <<serialized.embeddings[i][1],
                              Float32Array(serialized.embeddings[i][2])>>]),
                 metadata |-> [version |-> serialized.version,
                               indexedAt |-> serialized.indexedAt,
                               fileCount |-> serialized.fileCount,
                               chunkCount |-> serialized.chunkCount]]

-----------------------------------------------------------------------------
(* The files on disk                                                       *)

Versions(f) == IF f = FileA THEN {1, 2} ELSE {1}

\* content of file f in version v
DocOf(f, v) ==
  IF f = FileA
  THEN IF v = 1 THEN <<Text("L", LongLen), MdHead(1, "A"), Text("L", LongLen)>>
                ELSE <<MdHead(1, "A"), Text("L", LongLen)>>
  ELSE <<Text("t", ShortLen)>>

existsSync(f) == disk[f].v # 0

\* a file that is there but cannot be read (readFileSync throws EACCES)
Unreadable == 3

\* readFileSync(file, 'utf-8') throws: the file is gone or cannot be read
ReadThrows(f) == disk[f].v \notin Versions(f)

\* findDocumentationFiles: the documentation files now in the tree that the
\* ignore rules do not match and that are smaller than 5 MiB
RECURSIVE ListFiles(_)
ListFiles(order) ==
  IF order = <<>> THEN <<>>
  ELSE (IF /\ existsSync(Head(order))
            /\ Head(order) \notin skipped
            /\ extname(Head(order)) \in DOC_EXTENSIONS
        THEN <<Head(order)>> ELSE <<>>) \o ListFiles(Tail(order))

findDocumentationFiles == ListFiles(FileOrder)

-----------------------------------------------------------------------------
(* scanner.ts: the loops of updateIndexForFiles and                        *)
(* scanAndIndexDocumentation, run from one await to the next               *)

\* updateIndexForFiles from the head of `files` to the first
\* `await generateEmbedding`, or to the end of the loop (pending = <<>>)
RECURSIVE UpdateLoop(_, _)

\* the loop body for the file at the head of `files`, whose old entries are
\* removed in `removed` and whose chunks, if it is still there, are `chunks`
UpdateFile(removed, files, chunks) ==
  IF existsSync(Head(files)) /\ ~ReadThrows(Head(files)) /\ Len(chunks) > 0
  THEN [index |-> [removed EXCEPT !.chunks = MapSet(@, Head(files), chunks)],
        files |-> Tail(files), pending |-> chunks]
  ELSE UpdateLoop(removed, Tail(files))

UpdateLoop(idx, files) ==
  IF files = <<>> THEN [index |-> idx, files |-> <<>>, pending |-> <<>>]
  ELSE UpdateFile(RemoveFile(idx, Head(files)), files,
                  processFile(Head(files), DocOf(Head(files), disk[Head(files)].v)))

\* where the loop r has stopped: at an await, or at its end, and then the
\* metadata is updated
UpdateEnd(r) ==
  IF r.pending = <<>>
  THEN [st |-> "updated", index |-> UpdateMetadata(r.index, now),
        files |-> <<>>, pending |-> <<>>]
  ELSE [st |-> "embed", index |-> r.index, files |-> r.files, pending |-> r.pending]

UpdateRun(idx, files) == UpdateEnd(UpdateLoop(idx, files))

\* scanAndIndexDocumentation's loop; readFileSync throws for a file that is
\* gone and the file is skipped
RECURSIVE ScanLoop(_, _)

\* the loop body that lets a throw of processFile end the scan's loop
ScanFileOrAbort(idx, files, chunks) ==
  IF ReadThrows(Head(files))
  THEN [index |-> idx, files |-> <<>>, pending |-> <<>>]
  ELSE IF Len(chunks) > 0
       THEN [index |-> [idx EXCEPT !.chunks = MapSet(@, Head(files), chunks)],
             files |-> Tail(files), pending |-> chunks]
       ELSE [index |-> idx, files |-> Tail(files), pending |-> <<>>]

ScanFile(idx, files, chunks) ==
  IF ~ReadThrows(Head(files)) /\ Len(chunks) > 0
  THEN [index |-> [idx EXCEPT !.chunks = MapSet(@, Head(files), chunks)],
        files |-> Tail(files), pending |-> chunks]
  ELSE ScanLoop(idx, Tail(files))

ScanLoop(idx, files) ==
  IF files = <<>> THEN [index |-> idx, files |-> <<>>, pending |-> <<>>]
  ELSE ScanFile(idx, files,
                processFile(Head(files), DocOf(Head(files), disk[Head(files)].v)))

ScanEnd(r) ==
  IF r.pending = <<>>
  THEN [st |-> "scanned", index |-> ScanMetadata(r.index),
        files |-> <<>>, pending |-> <<>>]
  ELSE [st |-> "embed", index |-> r.index, files |-> r.files, pending |-> r.pending]

ScanRun(idx, files) == ScanEnd(ScanLoop(idx, files))

\* a resumption that gives up the rest of the file when there is no vector
AfterEmbeddingOrSkipFile(idx, pending, hasVector) ==
  IF hasVector
  THEN [index |-> SetEmbedding(idx, Head(pending)), pending |-> Tail(pending)]
  ELSE [index |-> idx, pending |-> <<>>]

\* the resumption after `await generateEmbedding(chunk.context)`: store the
\* vector if there is one, and go on with the file's next chunk
AfterEmbedding(idx, pending, hasVector) ==
  [index |-> IF hasVector THEN SetEmbedding(idx, Head(pending)) ELSE idx,
   pending |-> Tail(pending)]

\* updateIndexForFiles from that resumption to the next await
UpdateResume(idx, files, pending, hasVector) ==
  LET a == AfterEmbedding(idx, pending, hasVector)
  IN  IF a.pending # <<>>
      THEN [st |-> "embed", index |-> a.index, files |-> files, pending |-> a.pending]
      ELSE UpdateRun(a.index, files)

\* scanAndIndexDocumentation from that resumption to the next await
ScanResume(idx, files, pending, hasVector) ==
  LET a == AfterEmbedding(idx, pending, hasVector)
  IN  IF a.pending # <<>>
      THEN [st |-> "embed", index |-> a.index, files |-> files, pending |-> a.pending]
      ELSE ScanRun(a.index, files)

\* one execution of updateIndexForFiles (or of validateAndSyncIndex, which
\* ends in one): where it stands, the files still to do, the chunks of the
\* current file still to embed, and what it was called with: `called` is
\* its `files` argument and `gone` the files of it that were not on disk
\* at the call
IdleTask ==
  [st |-> "idle", files |-> <<>>, pending |-> <<>>, indexedAt |-> 0,
   called |-> <<>>, gone |-> {}]
DoneTask(task) == [task EXCEPT !.st = "done", !.files = <<>>, !.pending = <<>>,
                               !.indexedAt = 0]
TaskOf(r, task) == [task EXCEPT !.st = r.st, !.files = r.files,
                                !.pending = r.pending, !.indexedAt = 0]

\* the record of a call of updateIndexForFiles(index, files)
CallOf(files) ==
  [IdleTask EXCEPT !.called = files,
                   !.gone = {files[i] : i \in {j \in 1..Len(files) : ~existsSync(files[j])}}]

IdleScan == [st |-> "idle", index |-> NoIndex, files |-> <<>>, pending |-> <<>>]

-----------------------------------------------------------------------------
(* watcher.ts                                                              *)

InSeq(x, s) == \E i \in 1..Len(s) : s[i] = x

\* a queueChange that queues every path
queueChangeAnyFile(w, filePath) ==
  [w EXCEPT !.pending = IF InSeq(filePath, @) THEN @ ELSE Append(@, filePath),
            !.timer = TRUE]

\* a queueChange that starts the timer for the first path only
queueChangeFirstTimer(w, filePath) ==
  IF extname(filePath) \notin DOC_EXTENSIONS THEN w
  ELSE [w EXCEPT !.pending = IF InSeq(filePath, @) THEN @ ELSE Append(@, filePath),
                 !.timer = (batches = 0)]

\* queueChange
queueChange(w, filePath) ==
  IF extname(filePath) \notin DOC_EXTENSIONS THEN w
  ELSE [w EXCEPT !.pending = IF InSeq(filePath, @) THEN @ ELSE Append(@, filePath),
                 !.timer = TRUE]

\* a chokidar add / change / unlink event, once watcher.start() has run
Notify(w, filePath) == IF w.started THEN queueChange(w, filePath) ELSE w

BATCH_DELAY_MS == 500

\* queueChange: when batchTimer is due after an event for filePath at time t
batchTimerDue(due, filePath, t) ==
  IF extname(filePath) \notin DOC_EXTENSIONS THEN due ELSE t + BATCH_DELAY_MS

-----------------------------------------------------------------------------
(* index.ts: the search_docs handler                                       *)

\* handleSearchDocs up to the call of searchDocumentation
handleSearchDocs(idx, indexing, state, mode, query) ==
  IF indexing THEN "indexing in progress"
  ELSE IF idx = NoIndex THEN "not initialized"
  ELSE IF query = "" THEN "query required"
  ELSE IF mode = "semantic" /\ ~state.available THEN "semantic unavailable"
  ELSE "success"

\* ensureEmbeddingsAvailable: whether it calls tryInitializeEmbeddings
StartsAttempt(state, t) ==
  ~state.available /\ t - state.lastAttempt >= RetryIntervalMs

-----------------------------------------------------------------------------
(* search.ts: keyword and fuzzy search. A string is read as its words, a   *)
(* word as its characters; a text line Text(t, n) is the word t and        *)
(* padding.                                                                *)

\* the characters of a symbol of the model
Chars(sym) ==
  IF sym = "" THEN <<>>
  ELSE IF sym = "docs" THEN <<"d", "o", "c", "s">>
  ELSE IF sym = "general" THEN <<"g", "e", "n", "e", "r", "a", "l">>
  ELSE <<sym>>

\* toLowerCase()
LowerChar(ch) ==
  IF ch = "A" THEN "a" ELSE IF ch = "B" THEN "b" ELSE IF ch = "L" THEN "l" ELSE ch
toLowerCase(word) == [i \in 1..Len(word) |-> LowerChar(word[i])]

RECURSIVE Concat(_)
Concat(seqs) == IF seqs = <<>> THEN <<>> ELSE Head(seqs) \o Concat(Tail(seqs))

\* hierarchy.join(' > ') as words, `last` appended to the last of them
RECURSIVE JoinHierarchy(_, _)
JoinHierarchy(h, last) ==
  IF Len(h) = 1 THEN <<Chars(h[1]) \o last>>
  ELSE <<Chars(h[1]), <<">">>>> \o JoinHierarchy(Tail(h), last)

\* the string generateContext returns, as its words
ContextWords(context) ==
  LET category == Concat([i \in 1..Len(context.category) |-> Chars(context.category[i])])
      firstSentence == Chars(context.sentence)
  IN  IF context.hierarchy # <<>> /\ firstSentence # <<>>
      THEN <<category, <<">">>>> \o JoinHierarchy(context.hierarchy, <<":">>)
             \o <<firstSentence>>
      ELSE IF context.hierarchy # <<>>
      THEN <<category, <<">">>>> \o JoinHierarchy(context.hierarchy, <<>>)
      ELSE IF firstSentence # <<>>
      THEN <<category \o <<":">>, firstSentence>>
      ELSE <<category>>

\* the words of a line of content
LineWords(l) ==
  IF l.k = "blank" THEN <<>>
  ELSE IF l.k = "text" THEN <<Chars(l.t)>>
  ELSE IF l.k = "rule" THEN <<[i \in 1..l.n |-> l.c]>>
  ELSE <<[i \in 1..l.lv |-> l.c], Chars(l.t)>>

ContentWords(content) == Concat([i \in 1..Len(content) |-> LineWords(content[i])])

\* generateSearchableText, as words
generateSearchableText(chunk) ==
  LET parts == ContextWords(chunk.context)
                 \o [i \in 1..Len(chunk.hierarchy) |-> Chars(chunk.hierarchy[i])]
                 \o ContentWords(chunk.content)
  IN  [i \in 1..Len(parts) |-> toLowerCase(parts[i])]

IsInfix(q, w) ==
  \E i \in 0..(Len(w) - Len(q)) : SubSeq(w, i + 1, i + Len(q)) = q

\* text.includes(query) for a query of one word
Includes(words, q) == q = <<>> \/ \E i \in 1..Len(words) : IsInfix(q, words[i])

Min3(x, y, z) == IF x <= y /\ x <= z THEN x ELSE IF y <= z THEN y ELSE z

\* row i of levenshteinDistance's matrix, built from the left
RECURSIVE LevRow(_, _, _, _, _)
LevRow(a, b, i, prev, row) ==
  LET j == Len(row)
  IN  IF j > Len(a) THEN row
      ELSE LevRow(a, b, i, prev,
                  Append(row, IF b[i] = a[j]
                              THEN prev[j]
                              ELSE Min3(prev[j] + 1, row[j] + 1, prev[j + 1] + 1)))

RECURSIVE LevRows(_, _, _, _)
LevRows(a, b, i, prev) ==
  IF i > Len(b) THEN prev
  ELSE LevRows(a, b, i + 1, LevRow(a, b, i, prev, <<i>>))

\* rows hold matrix[i][0..a.length] at positions 1..a.length+1
levenshteinDistance(a, b) ==
  LevRows(a, b, 1, [j \in 1..(Len(a) + 1) |-> j - 1])[Len(a) + 1]

SearchChunks(idx) ==
  UNION {{idx.chunks[f][i] : i \in 1..Len(idx.chunks[f])} : f \in DOMAIN idx.chunks}

\* keywordSearch without filters: the results, scores in thousandths
keywordSearch(idx, query) ==
  LET queryLower == toLowerCase(query)
      Result(chunk) ==
        LET context == ContextWords(chunk.context)
        IN  IF Includes([i \in 1..Len(context) |-> toLowerCase(context[i])], queryLower)
            THEN [id |-> chunk.id, score |-> 900, match_reason |-> "context match"]
            ELSE IF \E i \in 1..Len(chunk.hierarchy) :
                      Includes(<<toLowerCase(Chars(chunk.hierarchy[i]))>>, queryLower)
            THEN [id |-> chunk.id, score |-> 800, match_reason |-> "heading match"]
            ELSE IF Includes(generateSearchableText(chunk), queryLower)
            THEN [id |-> chunk.id, score |-> 600, match_reason |-> "content match"]
            ELSE [id |-> chunk.id, score |-> 0, match_reason |-> ""]
  IN  {r \in {Result(chunk) : chunk \in SearchChunks(idx)} : r.score > 0}

Max(x, y) == IF x >= y THEN x ELSE y

\* 1 - distance / maxLen as the fraction <<maxLen - distance, maxLen>>; 0/0
\* is NaN, which no comparison accepts
FuzzyScore(queryLower, word, length) ==
  LET maxLen == Max(Len(queryLower), length)
  IN  <<maxLen - levenshteinDistance(queryLower, word), maxLen>>

Greater(x, y) == x[2] # 0 /\ y[2] # 0 /\ x[1] * y[2] > y[1] * x[2]

RECURSIVE BestScore(_, _)
BestScore(scores, best) ==
  IF scores = <<>> THEN best
  ELSE BestScore(Tail(scores), IF Greater(Head(scores), best) THEN Head(scores) ELSE best)

\* fuzzySearch without filters
fuzzySearch(idx, query) ==
  LET queryLower == toLowerCase(query)
      Result(chunk) ==
        LET context == ContextWords(chunk.context)
            headings == [i \in 1..Len(chunk.hierarchy) |->
                           FuzzyScore(queryLower, toLowerCase(Chars(chunk.hierarchy[i])),
                                      Len(Chars(chunk.hierarchy[i])))]
            words == [i \in 1..Len(context) |->
                        FuzzyScore(queryLower, toLowerCase(context[i]), Len(context[i]))]
        IN  [id |-> chunk.id, score |-> BestScore(headings \o words, <<0, 1>>),
             match_reason |-> "fuzzy match"]
  IN  {r \in {Result(chunk) : chunk \in SearchChunks(idx)} : Greater(r.score, <<6, 10>>)}

-----------------------------------------------------------------------------
(* search.ts: searchDocumentation with filters, ranking and the limit.     *)
(* A result is the chunk with its score in thousandths and the parts of    *)
(* its match_reason, which the source joins with " + ".                    *)

NoPattern == ""
MdPattern == "**/*.md"

\* minimatch(chunk.file, filters.filePattern) for the patterns above
minimatch(file, pattern) == pattern = MdPattern /\ extname(file) = ".md"

\* filters: filePattern (NoPattern when absent), category (<<>> when absent
\* or empty) and minScore (0 when absent)
NoFilters == [filePattern |-> NoPattern, category |-> <<>>, minScore |-> 0]

LowerWords(words) == [i \in 1..Len(words) |-> toLowerCase(words[i])]

matchesFilters(chunk, filters) ==
  /\ filters.filePattern # NoPattern => minimatch(chunk.file, filters.filePattern)
  /\ Len(filters.category) > 0 =>
        \E c \in 1..Len(filters.category) :
          Includes(LowerWords(ContextWords(chunk.context)),
                   toLowerCase(filters.category[c]))

\* the chunks in the order of index.chunks.values()
ChunkList(idx) ==
  Concat([i \in 1..Len(Entries(idx.chunks, DOMAIN idx.chunks)) |->
            Entries(idx.chunks, DOMAIN idx.chunks)[i][2]])

\* a keywordSearch that adds up the tiers that match
KeywordScoreCumulative(chunk, queryLower) ==
  [chunk |-> chunk,
   score |-> (IF Includes(LowerWords(ContextWords(chunk.context)), queryLower)
              THEN 900 ELSE 0)
             + (IF Includes(generateSearchableText(chunk), queryLower) THEN 600 ELSE 0),
   match_reason |-> <<"content match">>]

\* keywordSearch: score and reason of one chunk, score 0 for no match
KeywordScore(chunk, queryLower) ==
  IF Includes(LowerWords(ContextWords(chunk.context)), queryLower)
  THEN [chunk |-> chunk, score |-> 900, match_reason |-> <<"context match">>]
  ELSE IF \E i \in 1..Len(chunk.hierarchy) :
            Includes(<<toLowerCase(Chars(chunk.hierarchy[i]))>>, queryLower)
  THEN [chunk |-> chunk, score |-> 800, match_reason |-> <<"heading match">>]
  ELSE IF Includes(generateSearchableText(chunk), queryLower)
  THEN [chunk |-> chunk, score |-> 600, match_reason |-> <<"content match">>]
  ELSE [chunk |-> chunk, score |-> 0, match_reason |-> <<>>]

RECURSIVE KeywordLoop(_, _, _)
KeywordLoop(chunks, queryLower, filters) ==
  IF chunks = <<>> THEN <<>>
  ELSE (IF matchesFilters(Head(chunks), filters)
           /\ KeywordScore(Head(chunks), queryLower).score > 0
        THEN <<KeywordScore(Head(chunks), queryLower)>> ELSE <<>>)
       \o KeywordLoop(Tail(chunks), queryLower, filters)

\* keywordSearch(index, query, filters): the results in the order found
keywordResults(idx, query, filters) ==
  KeywordLoop(ChunkList(idx), toLowerCase(query), filters)

\* a fraction n/d in thousandths
Thousandths(f) == (1000 * f[1]) \div f[2]

\* fuzzySearch: the best score of one chunk as a fraction
FuzzyBest(chunk, queryLower) ==
  BestScore([i \in 1..Len(chunk.hierarchy) |->
               FuzzyScore(queryLower, toLowerCase(Chars(chunk.hierarchy[i])),
                          Len(Chars(chunk.hierarchy[i])))]
            \o [i \in 1..Len(ContextWords(chunk.context)) |->
                  FuzzyScore(queryLower, toLowerCase(ContextWords(chunk.context)[i]),
                             Len(ContextWords(chunk.context)[i]))],
            <<0, 1>>)

RECURSIVE FuzzyLoop(_, _, _)
FuzzyLoop(chunks, queryLower, filters) ==
  IF chunks = <<>> THEN <<>>
  ELSE (IF matchesFilters(Head(chunks), filters)
           /\ Greater(FuzzyBest(Head(chunks), queryLower), <<6, 10>>)
        THEN <<[chunk |-> Head(chunks),
                score |-> Thousandths(FuzzyBest(Head(chunks), queryLower)),
                match_reason |-> <<"fuzzy match">>]>>
        ELSE <<>>)
       \o FuzzyLoop(Tail(chunks), queryLower, filters)

\* fuzzySearch(index, query, filters): the results in the order found
fuzzyResults(idx, query, filters) ==
  FuzzyLoop(ChunkList(idx), toLowerCase(query), filters)

RECURSIVE Dot(_, _)
Dot(a, b) ==
  IF a = <<>> \/ b = <<>> THEN 0 ELSE Head(a) * Head(b) + Dot(Tail(a), Tail(b))

\* floor(1000000 * r / m) for 0 <= r <= m, by long division in base 1000
Millionths(r, m) ==
  (r \div m) * 1000000
  + (((r % m) * 1000) \div m) * 1000
  + (((((r % m) * 1000) % m) * 1000) \div m)

\* the largest s in lo..hi with s * s <= x
RECURSIVE ISqrt(_, _, _)
ISqrt(x, lo, hi) ==
  IF lo = hi THEN lo
  ELSE IF ((lo + hi + 1) \div 2) * ((lo + hi + 1) \div 2) <= x
       THEN ISqrt(x, (lo + hi + 1) \div 2, hi)
       ELSE ISqrt(x, lo, (lo + hi + 1) \div 2 - 1)

\* cosineSimilarity(a, b) in thousandths, rounded down, for vectors without
\* negative components; 0 for a zero vector
cosineSimilarity(a, b) ==
  IF Dot(a, a) * Dot(b, b) = 0 THEN 0
  ELSE ISqrt(Millionths(Dot(a, b) * Dot(a, b), Dot(a, a) * Dot(b, b)), 0, 1000)

\* similarity > 0.3, exactly
AboveThreshold(a, b) ==
  100 * Dot(a, b) * Dot(a, b) > 9 * Dot(a, a) * Dot(b, b)

\* chunks.find((c) => c.id === chunkId) over index.chunks.values(): the
\* first chunk with the id, as a sequence of at most one chunk
RECURSIVE FindChunk(_, _)
FindChunk(chunks, chunkId) ==
  IF chunks = <<>> THEN <<>>
  ELSE IF Head(chunks).id = chunkId THEN <<Head(chunks)>>
  ELSE FindChunk(Tail(chunks), chunkId)

\* the body of semanticSearch's loop for one entry of index.embeddings
SemanticEntry(found, chunkEmbedding, queryEmbedding, filters) ==
  IF found = <<>> THEN <<>>
  ELSE IF ~matchesFilters(found[1], filters) THEN <<>>
  ELSE IF AboveThreshold(queryEmbedding, [i \in 1..Len(chunkEmbedding) |-> FromFloat32(chunkEmbedding[i])])
  THEN <<[chunk |-> found[1],
          score |-> cosineSimilarity(queryEmbedding, [i \in 1..Len(chunkEmbedding) |-> FromFloat32(chunkEmbedding[i])]),
          match_reason |-> <<"semantic similarity">>]>>
  ELSE <<>>

RECURSIVE SemanticLoop(_, _, _, _)
SemanticLoop(entries, chunks, queryEmbedding, filters) ==
  IF entries = <<>> THEN <<>>
  ELSE SemanticEntry(FindChunk(chunks, Head(entries)[1]), Head(entries)[2],
                     queryEmbedding, filters)
       \o SemanticLoop(Tail(entries), chunks, queryEmbedding, filters)

\* generateEmbedding(query) gave no vector
NoVector == <<>>

\* semanticSearch, given what generateEmbedding(query) resolved to
semanticSearch(idx, queryEmbedding, filters) ==
  IF queryEmbedding = NoVector THEN <<>>
  ELSE SemanticLoop(Entries(idx.embeddings, DOMAIN idx.embeddings), ChunkList(idx),
                    queryEmbedding, filters)

\* position of the first result with the id in a Map's values, 0 if none
RECURSIVE IndexOfId(_, _, _)
IndexOfId(merged, id, i) ==
  IF i > Len(merged) THEN 0
  ELSE IF merged[i].chunk.id = id THEN i
  ELSE IndexOfId(merged, id, i + 1)

\* mergedMap.set(result.id, result): a new key goes last, an old key keeps
\* its place and takes the new value
MergedSet(merged, result, at) ==
  IF at = 0 THEN Append(merged, result) ELSE [merged EXCEPT ![at] = result]

RECURSIVE SetAll(_, _)
SetAll(merged, results) ==
  IF results = <<>> THEN merged
  ELSE SetAll(MergedSet(merged, Head(results),
                        IndexOfId(merged, Head(results).chunk.id, 1)),
              Tail(results))

\* the second loop of semanticSearchWithKeyword for one semantic result
Boost(merged, result, at) ==
  IF at = 0 THEN Append(merged, result)
  ELSE [merged EXCEPT ![at] =
          [@ EXCEPT !.score = @ + result.score,
                    !.match_reason = @ \o result.match_reason]]

RECURSIVE BoostAll(_, _)
BoostAll(merged, results) ==
  IF results = <<>> THEN merged
  ELSE BoostAll(Boost(merged, Head(results),
                      IndexOfId(merged, Head(results).chunk.id, 1)),
                Tail(results))

\* semanticSearchWithKeyword: Array.from(mergedMap.values())
semanticSearchWithKeyword(idx, query, queryEmbedding, filters) ==
  BoostAll(SetAll(<<>>, keywordResults(idx, query, filters)),
           semanticSearch(idx, queryEmbedding, filters))

\* results.sort((a, b) => b.score - a.score): stable, by falling score
RECURSIVE InsertSorted(_, _)
InsertSorted(sorted, r) ==
  IF sorted = <<>> THEN <<r>>
  ELSE IF r.score > Head(sorted).score THEN <<r>> \o sorted
  ELSE <<Head(sorted)>> \o InsertSorted(Tail(sorted), r)

RECURSIVE SortByScore(_, _)
SortByScore(sorted, results) ==
  IF results = <<>> THEN sorted
  ELSE SortByScore(InsertSorted(sorted, Head(results)), Tail(results))

\* results.slice(0, limit) for limit >= 0
Slice(results, limit) ==
  SubSeq(results, 1, IF limit < Len(results) THEN limit ELSE Len(results))

DEFAULT_LIMIT == 10

\* the switch of searchDocumentation
ResultsOfMode(idx, query, mode, filters, queryEmbedding) ==
  IF mode = "exact" THEN keywordResults(idx, query, filters)
  ELSE IF mode = "fuzzy" THEN fuzzyResults(idx, query, filters)
  ELSE semanticSearchWithKeyword(idx, query, queryEmbedding, filters)

\* searchDocumentation, given what generateEmbedding(query) resolves to
searchDocumentation(idx, query, mode, filters, limit, queryEmbedding) ==
  Slice(SortByScore(<<>>, ResultsOfMode(idx, query, mode, filters, queryEmbedding)),
        limit)

-----------------------------------------------------------------------------
(* The engine: initialize(), the watcher callback, the search handler      *)

\* the index a previous run of the process has persisted: the full scan of
\* a tree that held FileA in version 1, all embeddings present
PreviousIndex ==
  LET chunks == processFile(FileA, DocOf(FileA, 1))
      RECURSIVE Embed(_, _)
      Embed(idx, i) == IF i > Len(chunks) THEN idx
                       ELSE Embed(SetEmbedding(idx, chunks[i]), i + 1)
  IN  ScanMetadata(Embed([createEmptyIndex(T0 - TickMs) EXCEPT
                            !.chunks = MapSet(@, FileA, chunks)], 1))

StoreInits ==
  {NoStore, CorruptStore, saveIndex(PreviousIndex),
   Packed([Serialize(PreviousIndex) EXCEPT !.version = "999.0.0"])}

ParseIdle ==
  /\ pExt = ".txt"
  /\ pDoc = EmptyStr
  /\ pStage = "idle"
  /\ pChunks = <<>>

StoreIdle ==
  /\ rtStage = "idle"
  /\ rtLoaded = NoIndex

NoEvent == [path |-> <<>>, at |-> 0]

SearchIdle ==
  /\ sQuery = <<>>
  /\ sMode = "exact"
  /\ sFilters = NoFilters
  /\ sLimit = 0
  /\ sVector = NoVector
  /\ sStage = "idle"
  /\ sResults = <<>>

IdleCall == [op |-> "none", pc |-> "idle", arg |-> NoIndex, result |-> "none"]

LockProcs == {1, 2}

LockIdle ==
  /\ lockHolder = 0
  /\ calls = [p \in LockProcs |-> IdleCall]

WatchIdle ==
  /\ wDue = 0
  /\ wAccepted = {}
  /\ wAcceptedAt = 0
  /\ wLast = NoEvent
  /\ wEvents = 0
  /\ wBatch = <<>>

EngineStart ==
  /\ now = T0
  /\ index = NoIndex
  /\ isIndexing = FALSE
  /\ initPc = "start"
  /\ scan = IdleScan
  /\ tasks = [t \in 0..MaxBatches |-> IdleTask]
  /\ batches = 0
  /\ watcher = [started |-> FALSE, pending |-> <<>>, timer |-> FALSE]
  /\ embeddingsState = [available |-> FALSE, lastAttempt |-> 0]
  /\ retries = 0
  /\ response = "none"

InitEngine ==
  /\ EngineStart
  /\ disk \in {d \in [Files -> [v : 0..2, mtime : {0, T0}]] :
                 /\ d[FileA].v # 0
                 /\ d[FileA].mtime = (IF d[FileA].v = 1 THEN 0 ELSE T0)
                 /\ d[FileB].v \in {0, 1}
                 /\ d[FileB].mtime = 0}
  /\ store \in StoreInits
  /\ fsBudget = MaxFsEvents
  /\ skipped = {}

Init == InitEngine /\ ParseIdle /\ StoreIdle /\ WatchIdle /\ SearchIdle /\ LockIdle

Tick ==
  /\ now < T0 + MaxTicks * TickMs
  /\ now' = now + TickMs
  /\ UNCHANGED sideVars
  /\ UNCHANGED <<disk, store, index, isIndexing, initPc, scan, tasks, batches,
                 watcher, embeddingsState, retries, response, fsBudget, skipped>>

\* a file is created or rewritten
WriteFile(f, v) ==
  /\ fsBudget > 0
  /\ disk[f].v # v
  /\ disk' = [disk EXCEPT ![f] = [v |-> v, mtime |-> now]]
  /\ watcher' = Notify(watcher, f)
  /\ fsBudget' = fsBudget - 1
  /\ UNCHANGED skipped
  /\ UNCHANGED sideVars
  /\ UNCHANGED <<now, store, index, isIndexing, initPc, scan, tasks, batches,
                 embeddingsState, retries, response>>

\* a file is removed
DeleteFile(f) ==
  /\ fsBudget > 0
  /\ disk[f].v # 0
  /\ disk' = [disk EXCEPT ![f] = [v |-> 0, mtime |-> now]]
  /\ watcher' = Notify(watcher, f)
  /\ fsBudget' = fsBudget - 1
  /\ UNCHANGED skipped
  /\ UNCHANGED sideVars
  /\ UNCHANGED <<now, store, index, isIndexing, initPc, scan, tasks, batches,
                 embeddingsState, retries, response>>

\* initialize(): await tryInitializeEmbeddings() up to await initializeModel()
InitEmbeddings ==
  /\ initPc = "start"
  /\ initPc' = "embInit"
  /\ UNCHANGED sideVars
  /\ UNCHANGED <<now, disk, store, index, isIndexing, scan, tasks, batches, watcher,
                 embeddingsState, retries, response, fsBudget, skipped>>

\* tryInitializeEmbeddings after the await, in initialize()
InitAttemptDone(ok) ==
  /\ initPc = "embInit"
  /\ embeddingsState' = [available |-> ok, lastAttempt |-> now]
  /\ initPc' = "load"
  /\ UNCHANGED sideVars
  /\ UNCHANGED <<now, disk, store, index, isIndexing, scan, tasks, batches, watcher,
                 retries, response, fsBudget, skipped>>

\* tryInitializeEmbeddings after the await, started by a search request
RetryDone(ok) ==
  /\ retries > 0
  /\ retries' = retries - 1
  /\ embeddingsState' = [available |-> ok, lastAttempt |-> now]
  /\ UNCHANGED sideVars
  /\ UNCHANGED <<now, disk, store, index, isIndexing, initPc, scan, tasks, batches,
                 watcher, response, fsBudget, skipped>>

\* files of the index that are gone: step 1 of validateAndSyncIndex
RECURSIVE DeletedFiles(_, _)
DeletedFiles(order, idx) ==
  IF order = <<>> THEN <<>>
  ELSE (IF Head(order) \in DOMAIN idx.chunks /\ ~existsSync(Head(order))
        THEN <<Head(order)>> ELSE <<>>) \o DeletedFiles(Tail(order), idx)

\* index = await loadIndex(indexPath), and what initialize() does next up to
\* its next await
Load(lockFails) ==
  /\ initPc = "load"
  /\ LET loaded == loadIndex(store, lockFails)
     IN  IF loaded = NoIndex
         THEN /\ index' = createEmptyIndex(now)
              /\ isIndexing' = TRUE
              /\ initPc' = "scanList"
              /\ UNCHANGED tasks
         ELSE /\ index' = loaded
              /\ tasks' = [tasks EXCEPT ![0] =
                             [IdleTask EXCEPT
                                !.st = "listing",
                                !.files = DeletedFiles(FileOrder, loaded),
                                !.indexedAt = loaded.metadata.indexedAt]]
              /\ initPc' = "race"
              /\ UNCHANGED isIndexing
  /\ UNCHANGED sideVars
  /\ UNCHANGED <<now, disk, store, scan, batches, watcher, embeddingsState, retries,
                 response, fsBudget, skipped>>

\* scanAndIndexDocumentation after await findDocumentationFiles
ScanList ==
  /\ initPc = "scanList"
  /\ scan' = ScanRun(createEmptyIndex(now), findDocumentationFiles)
  /\ initPc' = "scanning"
  /\ UNCHANGED sideVars
  /\ UNCHANGED <<now, disk, store, index, isIndexing, tasks, batches, watcher,
                 embeddingsState, retries, response, fsBudget, skipped>>

\* main(): initialize().catch
Failed ==
  /\ embeddingsState' = [embeddingsState EXCEPT !.available = FALSE]
  /\ index' = IF index = NoIndex THEN createEmptyIndex(now) ELSE index
  /\ isIndexing' = FALSE
  /\ initPc' = "failed"

\* findDocumentationFiles rejects (readdir fails)
ScanFail ==
  /\ initPc = "scanList"
  /\ Failed
  /\ UNCHANGED sideVars
  /\ UNCHANGED <<now, disk, store, scan, tasks, batches, watcher, retries, response,
                 fsBudget, skipped>>

ScanEmbedDone(hasVector) ==
  /\ initPc = "scanning"
  /\ scan.st = "embed"
  /\ scan' = ScanResume(scan.index, scan.files, scan.pending, hasVector)
  /\ UNCHANGED sideVars
  /\ UNCHANGED <<now, disk, store, index, isIndexing, initPc, tasks, batches, watcher,
                 embeddingsState, retries, response, fsBudget, skipped>>

\* index = await scanAndIndexDocumentation(...); isIndexing = false; and the
\* call of saveIndex
ScanReturn ==
  /\ initPc = "scanning"
  /\ scan.st = "scanned"
  /\ index' = scan.index
  /\ isIndexing' = FALSE
  /\ scan' = IdleScan
  /\ initPc' = "saving"
  /\ UNCHANGED sideVars
  /\ UNCHANGED <<now, disk, store, tasks, batches, watcher, embeddingsState, retries,
                 response, fsBudget, skipped>>

\* await saveIndex(index, indexPath) after the full scan, then
\* createFileWatcher and watcher.start(); a throw leaves initialize()
InitSave(ok) ==
  /\ initPc = "saving"
  /\ IF ok
     THEN /\ store' = saveIndex(index)
          /\ watcher' = [watcher EXCEPT !.started = TRUE]
          /\ initPc' = "ready"
          /\ UNCHANGED <<index, isIndexing, embeddingsState>>
     ELSE /\ Failed
          /\ UNCHANGED <<store, watcher>>
  /\ UNCHANGED sideVars
  /\ UNCHANGED <<now, disk, scan, tasks, batches, retries, response, fsBudget, skipped>>

\* validateAndSyncIndex after await findDocumentationFiles and the stats
RECURSIVE NewOrModified(_, _, _)
NewOrModified(currentFiles, idx, indexedAt) ==
  IF currentFiles = <<>> THEN <<>>
  ELSE LET file == Head(currentFiles)
       IN  (IF file \notin DOMAIN idx.chunks \/ disk[file].mtime > indexedAt
            THEN <<file>> ELSE <<>>)
           \o NewOrModified(Tail(currentFiles), idx, indexedAt)

ValidateList ==
  /\ tasks[0].st = "listing"
  /\ LET filesToUpdate ==
           tasks[0].files \o NewOrModified(findDocumentationFiles, index,
                                           tasks[0].indexedAt)
         r == UpdateRun(index, filesToUpdate)
     IN  IF Len(filesToUpdate) > 0
         THEN /\ index' = r.index
              /\ tasks' = [tasks EXCEPT ![0] = TaskOf(r, CallOf(filesToUpdate))]
         ELSE /\ tasks' = [tasks EXCEPT ![0] = [IdleTask EXCEPT !.st = "updated"]]
              /\ UNCHANGED index
  /\ UNCHANGED sideVars
  /\ UNCHANGED <<now, disk, store, isIndexing, initPc, scan, batches, watcher,
                 embeddingsState, retries, response, fsBudget, skipped>>

\* validateAndSyncIndex rejects (readdir fails): the race is lost to the
\* catch block, which goes on to start the watcher
ValidateFail ==
  /\ tasks[0].st = "listing"
  /\ tasks' = [tasks EXCEPT ![0] = DoneTask(@)]
  /\ IF initPc = "race"
     THEN /\ initPc' = "ready"
          /\ watcher' = [watcher EXCEPT !.started = TRUE]
     ELSE UNCHANGED <<initPc, watcher>>
  /\ UNCHANGED sideVars
  /\ UNCHANGED <<now, disk, store, index, isIndexing, scan, batches, embeddingsState,
                 retries, response, fsBudget, skipped>>

\* the 30000 ms timer of the race fires first
Timeout ==
  /\ initPc = "race"
  /\ initPc' = "ready"
  /\ watcher' = [watcher EXCEPT !.started = TRUE]
  /\ UNCHANGED sideVars
  /\ UNCHANGED <<now, disk, store, index, isIndexing, scan, tasks, batches,
                 embeddingsState, retries, response, fsBudget, skipped>>

\* validateAndSyncIndex resolves
ValidateReturn ==
  /\ tasks[0].st = "updated"
  /\ tasks' = [tasks EXCEPT ![0] = DoneTask(@)]
  /\ initPc' = IF initPc = "race" THEN "saveV" ELSE initPc
  /\ UNCHANGED sideVars
  /\ UNCHANGED <<now, disk, store, index, isIndexing, scan, batches, watcher,
                 embeddingsState, retries, response, fsBudget, skipped>>

\* await saveIndex(index, indexPath) inside the try block, then the watcher
InitSaveV(ok) ==
  /\ initPc = "saveV"
  /\ store' = IF ok THEN saveIndex(index) ELSE store
  /\ watcher' = [watcher EXCEPT !.started = TRUE]
  /\ initPc' = "ready"
  /\ UNCHANGED sideVars
  /\ UNCHANGED <<now, disk, index, isIndexing, scan, tasks, batches, embeddingsState,
                 retries, response, fsBudget, skipped>>

\* updateIndexForFiles after `await generateEmbedding`
EmbedDone(t, hasVector) ==
  /\ tasks[t].st = "embed"
  /\ LET r == UpdateResume(index, tasks[t].files, tasks[t].pending, hasVector)
     IN  /\ index' = r.index
         /\ tasks' = [tasks EXCEPT ![t] = TaskOf(r, @)]
  /\ UNCHANGED sideVars
  /\ UNCHANGED <<now, disk, store, isIndexing, initPc, scan, batches, watcher,
                 embeddingsState, retries, response, fsBudget, skipped>>

\* the batch timer fires: processBatch, and the watcher callback up to the
\* first await of updateIndexForFiles
TimerFire ==
  /\ watcher.timer
  /\ batches < MaxBatches
  /\ IF Len(watcher.pending) = 0 \/ index = NoIndex
     THEN /\ watcher' = [watcher EXCEPT !.timer = FALSE, !.pending = <<>>]
          /\ UNCHANGED <<index, tasks, batches>>
     ELSE LET r == UpdateRun(index, watcher.pending)
          IN  /\ watcher' = [watcher EXCEPT !.timer = FALSE, !.pending = <<>>]
              /\ index' = r.index
              /\ tasks' = [tasks EXCEPT ![batches + 1] = TaskOf(r, CallOf(watcher.pending))]
              /\ batches' = batches + 1
  /\ UNCHANGED sideVars
  /\ UNCHANGED <<now, disk, store, isIndexing, initPc, scan, embeddingsState, retries,
                 response, fsBudget, skipped>>

\* the watcher callback after `await updateIndexForFiles`: saveIndex, whose
\* failure is swallowed
TaskSave(t, ok) ==
  /\ t > 0
  /\ tasks[t].st = "updated"
  /\ store' = IF ok THEN saveIndex(index) ELSE store
  /\ tasks' = [tasks EXCEPT ![t] = DoneTask(@)]
  /\ UNCHANGED sideVars
  /\ UNCHANGED <<now, disk, index, isIndexing, initPc, scan, batches, watcher,
                 embeddingsState, retries, response, fsBudget, skipped>>

\* a search_docs request: void ensureEmbeddingsAvailable(), then
\* handleSearchDocs
SearchDocs(mode, query) ==
  /\ IF StartsAttempt(embeddingsState, now)
     THEN /\ retries < MaxRetries
          /\ retries' = retries + 1
     ELSE UNCHANGED retries
  /\ response' = handleSearchDocs(index, isIndexing, embeddingsState, mode, query)
  /\ UNCHANGED sideVars
  /\ UNCHANGED <<now, disk, store, index, isIndexing, initPc, scan, tasks, batches,
                 watcher, embeddingsState, fsBudget, skipped>>

Modes == {"semantic", "exact", "fuzzy"}
Queries == {"", "L"}

Next ==
  \/ \E f \in Files : \E v \in Versions(f) : WriteFile(f, v)
  \/ \E f \in Files : DeleteFile(f)
  \/ InitEmbeddings
  \/ \E ok \in BOOLEAN : InitAttemptDone(ok)
  \/ \E lockFails \in BOOLEAN : Load(lockFails)
  \/ ScanList
  \/ ScanFail
  \/ \E hasVector \in BOOLEAN : ScanEmbedDone(hasVector)
  \/ ScanReturn
  \/ \E ok \in BOOLEAN : InitSave(ok)
  \/ ValidateList
  \/ ValidateFail
  \/ Timeout
  \/ ValidateReturn
  \/ \E ok \in BOOLEAN : InitSaveV(ok)
  \/ \E t \in 0..MaxBatches : \E hasVector \in BOOLEAN : EmbedDone(t, hasVector)
  \/ TimerFire
  \/ \E t \in 1..MaxBatches : \E ok \in BOOLEAN : TaskSave(t, ok)

\* the engine from process start: startup, the file system changing under
\* it, the watcher's batches and their updates
Spec == Init /\ [][Next]_vars

-----------------------------------------------------------------------------
(* The engine started on a persisted index while the clock runs: the       *)
(* reconciliation, the watcher's batches and what they persist             *)

InitDrift ==
  /\ EngineStart
  /\ disk \in {d \in [Files -> [v : 0..1, mtime : {0}]] : d[FileA].v = 1}
  /\ store = saveIndex(PreviousIndex)
  /\ fsBudget = MaxFsEvents
  /\ skipped = {}
  /\ ParseIdle
  /\ StoreIdle
  /\ WatchIdle
  /\ SearchIdle
  /\ LockIdle

\* the clock of this development
DriftTick ==
  /\ now < T0 + MaxDriftTicks * TickMs
  /\ now' = now + TickMs
  /\ UNCHANGED sideVars
  /\ UNCHANGED <<disk, store, index, isIndexing, initPc, scan, tasks, batches,
                 watcher, embeddingsState, retries, response, fsBudget, skipped>>

NextDrift ==
  \/ DriftTick
  \/ \E f \in Files : \E v \in Versions(f) : WriteFile(f, v)
  \/ \E f \in Files : DeleteFile(f)
  \/ InitEmbeddings
  \/ InitAttemptDone(TRUE)
  \/ Load(FALSE)
  \/ ValidateList
  \/ ValidateFail
  \/ Timeout
  \/ ValidateReturn
  \/ \E ok \in BOOLEAN : InitSaveV(ok)
  \/ \E t \in 0..MaxBatches : EmbedDone(t, TRUE)
  \/ TimerFire
  \/ \E t \in 1..MaxBatches : \E ok \in BOOLEAN : TaskSave(t, ok)

SpecDrift == InitDrift /\ [][NextDrift]_vars

-----------------------------------------------------------------------------
(* Requests and the embedding provider: search_docs requests arriving      *)
(* while the clock runs, from process start on                             *)

InitEmb ==
  /\ EngineStart
  /\ disk = [f \in Files |-> [v |-> IF f = FileB THEN 1 ELSE 0, mtime |-> 0]]
  /\ store = NoStore
  /\ fsBudget = 0
  /\ skipped = {}
  /\ ParseIdle
  /\ StoreIdle
  /\ WatchIdle
  /\ SearchIdle
  /\ LockIdle

NextEmb ==
  \/ Tick
  \/ InitEmbeddings
  \/ \E ok \in BOOLEAN : InitAttemptDone(ok)
  \/ \E ok \in BOOLEAN : RetryDone(ok)
  \/ \E lockFails \in BOOLEAN : Load(lockFails)
  \/ ScanList
  \/ ScanFail
  \/ \E hasVector \in BOOLEAN : ScanEmbedDone(hasVector)
  \/ ScanReturn
  \/ \E ok \in BOOLEAN : InitSave(ok)
  \/ \E mode \in Modes : \E query \in Queries : SearchDocs(mode, query)

SpecEmb == InitEmb /\ [][NextEmb]_vars

-----------------------------------------------------------------------------
(* Startup alone, over a tree that may hold files that cannot be read      *)

InitStartup ==
  /\ EngineStart
  /\ disk \in {d \in [Files -> [v : 0..Unreadable, mtime : {0, T0}]] :
                 /\ d[FileA].v # 0
                 /\ d[FileA].mtime = (IF d[FileA].v = 1 THEN 0 ELSE T0)
                 /\ d[FileB].v \in {0, 1, Unreadable}
                 /\ d[FileB].mtime = 0}
  /\ store \in StoreInits
  /\ fsBudget = 0
  /\ skipped = {}
  /\ ParseIdle
  /\ StoreIdle
  /\ WatchIdle
  /\ SearchIdle
  /\ LockIdle

NextStartup ==
  \/ InitEmbeddings
  \/ \E ok \in BOOLEAN : InitAttemptDone(ok)
  \/ \E lockFails \in BOOLEAN : Load(lockFails)
  \/ ScanList
  \/ ScanFail
  \/ \E hasVector \in BOOLEAN : ScanEmbedDone(hasVector)
  \/ ScanReturn
  \/ \E ok \in BOOLEAN : InitSave(ok)
  \/ ValidateList
  \/ ValidateFail
  \/ Timeout
  \/ ValidateReturn
  \/ \E ok \in BOOLEAN : InitSaveV(ok)
  \/ \E t \in 0..MaxBatches : \E hasVector \in BOOLEAN : EmbedDone(t, hasVector)

SpecStartup == InitStartup /\ [][NextStartup]_vars

\* no step of startup is left: initialize() has returned or rejected and
\* validateAndSyncIndex, if the timeout abandoned it, has ended
StartupHalted ==
  /\ initPc \in {"ready", "failed"}
  /\ tasks[0].st \in {"idle", "done"}

\* the same where initialize() is not suspended for ever: every await
\* settles and the timer of the race fires. This is WF_vars(NextStartup)
\* with StartupHalted written out for ~ENABLED <<NextStartup>>_vars.
SpecStartupFair == SpecStartup /\ ([]<>StartupHalted \/ []<><<NextStartup>>_vars)

-----------------------------------------------------------------------------
(* Startup on the index of a previous run whose files the scanner may now  *)
(* skip: the ignore rules or the size of a file changed in between         *)

InitSync ==
  /\ EngineStart
  /\ disk \in {d \in [Files -> [v : 0..1, mtime : {0}]] : d[FileA].v = 1}
  /\ store = saveIndex(PreviousIndex)
  /\ fsBudget = 0
  /\ skipped \in SUBSET Files
  /\ ParseIdle
  /\ StoreIdle
  /\ WatchIdle
  /\ SearchIdle
  /\ LockIdle

SpecSync == InitSync /\ [][NextStartup]_vars

-----------------------------------------------------------------------------
(* Watcher development: chokidar events and the batch timer on a clock     *)

FileJs == <<"/", "x", ".js">>
FileUpper == <<"/", "R", ".MD">>
WatchPaths == {FileA, FileB, FileJs, FileUpper}
WatchTickMs == BATCH_DELAY_MS \div 2

InitWatch ==
  /\ now = T0
  /\ index = createEmptyIndex(T0)
  /\ isIndexing = FALSE
  /\ initPc = "ready"
  /\ scan = IdleScan
  /\ tasks = [t \in 0..MaxBatches |-> IdleTask]
  /\ batches = 0
  /\ watcher = [started |-> TRUE, pending |-> <<>>, timer |-> FALSE]
  /\ embeddingsState = [available |-> FALSE, lastAttempt |-> 0]
  /\ retries = 0
  /\ response = "none"
  /\ disk = [f \in Files |-> [v |-> 0, mtime |-> 0]]
  /\ store = NoStore
  /\ fsBudget = 0
  /\ skipped = {}
  /\ ParseIdle
  /\ StoreIdle
  /\ WatchIdle
  /\ SearchIdle
  /\ LockIdle

WatchTick ==
  /\ now < T0 + MaxWatchTicks * WatchTickMs
  /\ now' = now + WatchTickMs
  /\ UNCHANGED <<parseVars, storeVars, watchVars, searchVars, lockVars>>
  /\ UNCHANGED <<disk, store, index, isIndexing, initPc, scan, tasks, batches,
                 watcher, embeddingsState, retries, response, fsBudget, skipped>>

\* watcher.on('add' | 'change' | 'unlink', queueChange)
WatchEvent(filePath) ==
  /\ wEvents < MaxWatchEvents
  /\ watcher' = Notify(watcher, filePath)
  /\ wDue' = batchTimerDue(wDue, filePath, now)
  /\ wEvents' = wEvents + 1
  /\ wLast' = [path |-> filePath, at |-> now]
  /\ IF extname(filePath) \in DOC_EXTENSIONS
     THEN wAccepted' = wAccepted \cup {filePath} /\ wAcceptedAt' = now
     ELSE UNCHANGED <<wAccepted, wAcceptedAt>>
  /\ UNCHANGED <<parseVars, storeVars, searchVars, lockVars, wBatch>>
  /\ UNCHANGED <<now, disk, store, index, isIndexing, initPc, scan, tasks, batches,
                 embeddingsState, retries, response, fsBudget, skipped>>

\* the setTimeout callback: processBatch(); batchTimer = null
WatchFire ==
  /\ watcher.timer
  /\ now >= wDue
  /\ watcher' = [watcher EXCEPT !.timer = FALSE, !.pending = <<>>]
  /\ IF Len(watcher.pending) = 0
     THEN UNCHANGED <<wBatch, batches, wAccepted>>
     ELSE /\ wBatch' = watcher.pending
          /\ batches' = batches + 1
          /\ wAccepted' = {}
  /\ UNCHANGED <<parseVars, storeVars, searchVars, lockVars, wDue, wAcceptedAt, wLast, wEvents>>
  /\ UNCHANGED <<now, disk, store, index, isIndexing, initPc, scan, tasks,
                 embeddingsState, retries, response, fsBudget, skipped>>

NextWatch ==
  \/ WatchTick
  \/ \E filePath \in WatchPaths : WatchEvent(filePath)
  \/ WatchFire

SpecWatch == InitWatch /\ [][NextWatch]_vars

\* the clock does not stop while batchTimer is pending
WatchTickOn ==
  /\ \/ now < T0 + MaxWatchTicks * WatchTickMs
     \/ watcher.timer /\ now < wDue
  /\ now' = now + WatchTickMs
  /\ UNCHANGED <<parseVars, storeVars, watchVars, searchVars, lockVars>>
  /\ UNCHANGED <<disk, store, index, isIndexing, initPc, scan, tasks, batches,
                 watcher, embeddingsState, retries, response, fsBudget, skipped>>

NextWatchFair ==
  \/ WatchTickOn
  \/ \E filePath \in WatchPaths : WatchEvent(filePath)
  \/ WatchFire

\* time passes, a timer that is due fires, and stop() is not called
SpecWatchFair ==
  InitWatch /\ [][NextWatchFair]_vars /\ WF_vars(WatchTickOn) /\ WF_vars(WatchFire)

-----------------------------------------------------------------------------
(* Search development: searchDocumentation over the index of a scanned     *)
(* tree, for every query, mode, filter and limit of a small set            *)

FileR == <<"/", "docs", "/", "r", ".rst">>

SearchDocOf(f) ==
  IF f = FileA THEN <<MdHead(1, "A"), Text("t", ShortLen), Text("B", ShortLen)>>
  ELSE IF f = FileR
  THEN <<Rule("-", ShortLen), Text("t", ShortLen), Rule("-", ShortLen),
         Text("L", LongLen)>>
  ELSE <<Text("t", ShortLen)>>

\* the index after a scan of the files, every chunk with its vector or none
RECURSIVE EmbedAll(_, _)
EmbedAll(idx, chunks) ==
  IF chunks = <<>> THEN idx ELSE EmbedAll(SetEmbedding(idx, Head(chunks)), Tail(chunks))

ScannedChunks(files) ==
  [createEmptyIndex(T0) EXCEPT !.chunks = [f \in files |-> processFile(f, SearchDocOf(f))]]

ScannedIndex(files, hasVectors) ==
  ScanMetadata(IF hasVectors
               THEN EmbedAll(ScannedChunks(files), ChunkList(ScannedChunks(files)))
               ELSE ScannedChunks(files))

SearchQueries == {<<"A">>, <<"b">>, <<"t">>, <<"l">>, <<"d">>, <<"z">>}
SearchCategories == {<<>>, <<<<"d", "o", "c", "s">>>>, <<<<"z">>, <<"A">>>>}
MinScores == {0, 700}
Limits == {0, 1, DEFAULT_LIMIT}
QueryVectors == {NoVector, <<28, 0, 12>>, <<0, 4, 0>>}

InitSearch ==
  /\ now = T0
  /\ index \in {ScannedIndex(files, hasVectors) :
                   files \in {{FileA, FileB}, {FileA, FileB, FileR}},
                   hasVectors \in BOOLEAN}
  /\ isIndexing = FALSE
  /\ initPc = "ready"
  /\ scan = IdleScan
  /\ tasks = [t \in 0..MaxBatches |-> IdleTask]
  /\ batches = 0
  /\ watcher = [started |-> TRUE, pending |-> <<>>, timer |-> FALSE]
  /\ embeddingsState = [available |-> TRUE, lastAttempt |-> T0]
  /\ retries = 0
  /\ response = "none"
  /\ disk = [f \in Files |-> [v |-> 0, mtime |-> 0]]
  /\ store = NoStore
  /\ fsBudget = 0
  /\ skipped = {}
  /\ ParseIdle
  /\ StoreIdle
  /\ WatchIdle
  /\ LockIdle
  /\ sQuery \in SearchQueries
  /\ sMode \in Modes
  /\ sFilters \in [filePattern : {NoPattern, MdPattern}, category : SearchCategories,
                    minScore : MinScores]
  /\ sLimit \in Limits
  /\ sVector \in IF sMode = "semantic" THEN QueryVectors ELSE {NoVector}
  /\ sStage = "asked"
  /\ sResults = <<>>

\* await searchDocumentation(index, query, mode, filters, limit)
Search ==
  /\ sStage = "asked"
  /\ sResults' = searchDocumentation(index, sQuery, sMode, sFilters, sLimit, sVector)
  /\ sStage' = "answered"
  /\ UNCHANGED <<parseVars, storeVars, watchVars, engineVars, lockVars>>
  /\ UNCHANGED <<sQuery, sMode, sFilters, sLimit, sVector>>

NextSearch == Search

SpecSearch == InitSearch /\ [][NextSearch]_vars

-----------------------------------------------------------------------------
(* Watcher batches on the index of a tree that also holds a file whose     *)
(* path is the path of another file followed by ":": the file              *)
(* "a.md:x.md" next to "a.md" in /docs.  That file does not change, so it  *)
(* is part of the index and not of the files that change on disk.          *)

FileNested == FileA \o <<":", "x", ".md">>

FramePaths == Files \cup {FileNested}

\* the index after the scan of FileA and FileNested, every chunk with its vector
FrameIndex ==
  ScanMetadata(
    EmbedAll([createEmptyIndex(T0) EXCEPT
                !.chunks = MapSet(MapSet(@, FileA, processFile(FileA, DocOf(FileA, 1))),
                                  FileNested,
                                  processFile(FileNested, DocOf(FileA, 2)))],
             processFile(FileA, DocOf(FileA, 1))
               \o processFile(FileNested, DocOf(FileA, 2))))

InitFrame ==
  /\ now = T0
  /\ index = FrameIndex
  /\ isIndexing = FALSE
  /\ initPc = "ready"
  /\ scan = IdleScan
  /\ tasks = [t \in 0..MaxBatches |-> IdleTask]
  /\ batches = 0
  /\ watcher = [started |-> TRUE, pending |-> <<>>, timer |-> FALSE]
  /\ embeddingsState = [available |-> TRUE, lastAttempt |-> T0]
  /\ retries = 0
  /\ response = "none"
  /\ disk \in {d \in [Files -> [v : 0..1, mtime : {0}]] : d[FileA].v = 1}
  /\ store = saveIndex(FrameIndex)
  /\ fsBudget = MaxFsEvents
  /\ skipped = {}
  /\ ParseIdle
  /\ StoreIdle
  /\ WatchIdle
  /\ SearchIdle
  /\ LockIdle

NextFrame ==
  \/ \E f \in Files : \E v \in Versions(f) : WriteFile(f, v)
  \/ \E f \in Files : DeleteFile(f)
  \/ TimerFire
  \/ \E t \in 1..MaxBatches : \E hasVector \in BOOLEAN : EmbedDone(t, hasVector)
  \/ \E t \in 1..MaxBatches : \E ok \in BOOLEAN : TaskSave(t, ok)

SpecFrame == InitFrame /\ [][NextFrame]_vars

-----------------------------------------------------------------------------
(* Lock development: saveIndex and loadIndex calls of two processes on one *)
(* indexPath.  writeFileSync is not atomic for another process: the file   *)
(* is first a part of the bytes, then all of them.                         *)

\* the file while writeFileSync is at work, or after it failed half-way
PartialStore == [kind |-> "partial"]

LockIndexes == {PreviousIndex, createEmptyIndex(T0)}

\* a loadIndex that goes to readFileSync without withLock
loadIndexUnlocked(file) == IF file.kind = "missing" THEN "done" ELSE "locked"

\* loadIndex up to its first await: null when the file does not exist, else
\* withLock(indexPath, ...)
loadIndexEntry(file) == IF file.kind = "missing" THEN "done" ELSE "acquire"

\* withLock on its way out: the lock is released if the call holds it
Release(holder, p) == IF holder = p THEN 0 ELSE holder

InitLock ==
  /\ EngineStart
  /\ disk = [f \in Files |-> [v |-> 0, mtime |-> 0]]
  /\ store \in {NoStore, saveIndex(PreviousIndex)}
  /\ fsBudget = 0
  /\ skipped = {}
  /\ ParseIdle
  /\ StoreIdle
  /\ WatchIdle
  /\ SearchIdle
  /\ LockIdle

LockFrame ==
  /\ UNCHANGED <<parseVars, storeVars, watchVars, searchVars>>
  /\ UNCHANGED <<now, disk, index, isIndexing, initPc, scan, tasks, batches, watcher,
                 embeddingsState, retries, response, fsBudget, skipped>>

\* saveIndex(index, indexPath) is called: await withLock(indexPath, ...)
CallSave(p, idx) ==
  /\ calls[p].pc = "idle"
  /\ calls' = [calls EXCEPT ![p] = [IdleCall EXCEPT !.op = "save", !.pc = "acquire",
                                                     !.arg = idx]]
  /\ UNCHANGED <<store, lockHolder>>
  /\ LockFrame

\* loadIndex(indexPath) is called: existsSync, then withLock
CallLoad(p) ==
  /\ calls[p].pc = "idle"
  /\ calls' = [calls EXCEPT ![p] = [IdleCall EXCEPT !.op = "load",
                                                     !.pc = loadIndexEntry(store),
                                                     !.result = "null"]]
  /\ UNCHANGED <<store, lockHolder>>
  /\ LockFrame

\* withLock: the lock is free and taken
Acquire(p) ==
  /\ calls[p].pc = "acquire"
  /\ lockHolder = 0
  /\ lockHolder' = p
  /\ calls' = [calls EXCEPT ![p].pc = "locked"]
  /\ UNCHANGED store
  /\ LockFrame

\* withLock: the lock is held and the acquisition fails; saveIndex rejects,
\* loadIndex catches and returns null
AcquireFail(p) ==
  /\ calls[p].pc = "acquire"
  /\ lockHolder # 0
  /\ calls' = [calls EXCEPT ![p].pc = "done",
                            ![p].result = IF calls[p].op = "save" THEN "threw" ELSE "null"]
  /\ UNCHANGED <<store, lockHolder>>
  /\ LockFrame

\* the callback of saveIndex: pack, and writeFileSync begins
WriteBegin(p) ==
  /\ calls[p].op = "save" /\ calls[p].pc = "locked"
  /\ store' = PartialStore
  /\ calls' = [calls EXCEPT ![p].pc = "writing"]
  /\ UNCHANGED lockHolder
  /\ LockFrame

\* writeFileSync completes, the callback returns and withLock releases
WriteEnd(p) ==
  /\ calls[p].op = "save" /\ calls[p].pc = "writing"
  /\ store' = saveIndex(calls[p].arg)
  /\ lockHolder' = Release(lockHolder, p)
  /\ calls' = [calls EXCEPT ![p].pc = "done", ![p].result = "saved"]
  /\ LockFrame

\* pack or writeFileSync throws: withLock releases and saveIndex rejects
WriteThrow(p) ==
  /\ calls[p].op = "save" /\ calls[p].pc \in {"locked", "writing"}
  /\ lockHolder' = Release(lockHolder, p)
  /\ calls' = [calls EXCEPT ![p].pc = "done", ![p].result = "threw"]
  /\ UNCHANGED store
  /\ LockFrame

\* the callback of loadIndex: readFileSync and unpack, which throws on a
\* part of a file; withLock releases
Read(p) ==
  /\ calls[p].op = "load" /\ calls[p].pc = "locked"
  /\ lockHolder' = Release(lockHolder, p)
  /\ calls' = [calls EXCEPT
                 ![p].pc = "done",
                 ![p].result = IF store.kind = "partial" THEN "null"
                               ELSE IF loadIndex(store, FALSE) = NoIndex THEN "null"
                               ELSE "index"]
  /\ UNCHANGED store
  /\ LockFrame

\* the caller goes on
Return(p) ==
  /\ calls[p].pc = "done"
  /\ calls' = [calls EXCEPT ![p] = IdleCall]
  /\ UNCHANGED <<store, lockHolder>>
  /\ LockFrame

NextLock ==
  \/ \E p \in LockProcs : \E idx \in LockIndexes : CallSave(p, idx)
  \/ \E p \in LockProcs : CallLoad(p)
  \/ \E p \in LockProcs : Acquire(p)
  \/ \E p \in LockProcs : AcquireFail(p)
  \/ \E p \in LockProcs : WriteBegin(p)
  \/ \E p \in LockProcs : WriteEnd(p)
  \/ \E p \in LockProcs : WriteThrow(p)
  \/ \E p \in LockProcs : Read(p)
  \/ \E p \in LockProcs : Return(p)

SpecLock == InitLock /\ [][NextLock]_vars

-----------------------------------------------------------------------------
(* Parser development: every document of up to MaxLines lines over the    *)
(* line alphabet of its dialect goes through parse, merge and split.       *)

Exts == {".md", ".rst", ".adoc", ".txt"}

CommonLines == {Blank, Text("t", ShortLen), Text("L", LongLen)}

Alphabet(ext) ==
  CommonLines \cup
    (IF ext = ".md" THEN {MdHead(1, "A"), MdHead(2, "B")}
     ELSE IF ext = ".rst" THEN {Rule("=", ShortLen), Rule("-", ShortLen),
                                Text("S", ShortLen)}
     ELSE IF ext = ".adoc" THEN {AdHead(1, "A"), AdHead(2, "B")}
     ELSE {})

Docs(ext) == UNION {[1..n -> Alphabet(ext)] : n \in 1..MaxLines}

EngineIdle ==
  /\ EngineStart
  /\ disk = [f \in Files |-> [v |-> 0, mtime |-> 0]]
  /\ store = NoStore
  /\ fsBudget = 0
  /\ skipped = {}

InitParse ==
  /\ pExt \in Exts
  /\ pDoc \in Docs(pExt)
  /\ pStage = "read"
  /\ pChunks = <<>>
  /\ EngineIdle
  /\ StoreIdle
  /\ WatchIdle
  /\ SearchIdle
  /\ LockIdle

Parse ==
  /\ pStage = "read"
  /\ pChunks' = ParseByExt(pExt, pDoc)
  /\ pStage' = "parsed"
  /\ UNCHANGED <<pExt, pDoc>>
  /\ UNCHANGED engineVars
  /\ UNCHANGED storeVars
  /\ UNCHANGED watchVars
  /\ UNCHANGED searchVars
  /\ UNCHANGED lockVars

Merge ==
  /\ pStage = "parsed"
  /\ pChunks' = mergeSmallChunks(pChunks, MinTokens)
  /\ pStage' = "merged"
  /\ UNCHANGED <<pExt, pDoc>>
  /\ UNCHANGED engineVars
  /\ UNCHANGED storeVars
  /\ UNCHANGED watchVars
  /\ UNCHANGED searchVars
  /\ UNCHANGED lockVars

Split ==
  /\ pStage = "merged"
  /\ pChunks' = splitLargeChunks(pChunks, MaxTokens)
  /\ pStage' = "split"
  /\ UNCHANGED <<pExt, pDoc>>
  /\ UNCHANGED engineVars
  /\ UNCHANGED storeVars
  /\ UNCHANGED watchVars
  /\ UNCHANGED searchVars
  /\ UNCHANGED lockVars

NextParse == Parse \/ Merge \/ Split

SpecParse == InitParse /\ [][NextParse]_vars

-----------------------------------------------------------------------------
\* C2: after parse -> mergeSmallChunks -> splitLargeChunks no two chunks of a
\* document have the same startLine, so the ids '<file>:<startLine>' of one
\* file are pairwise distinct.
C2_UniqueStartLines ==
  pStage = "split" =>
    \A i, j \in 1..Len(pChunks) :
      i # j => pChunks[i].startLine # pChunks[j].startLine

-----------------------------------------------------------------------------
(* The engine's index                                                      *)

\* an updateIndexForFiles call has started and not returned
UpdateInProgress == \E t \in 0..MaxBatches : tasks[t].st = "embed"

\* the ids of the chunks in the chunk list of file f
IdsOf(idx, f) ==
  IF f \in DOMAIN idx.chunks
  THEN {idx.chunks[f][i].id : i \in 1..Len(idx.chunks[f])}
  ELSE {}

\* C1: whenever no updateIndexForFiles call is in progress, every key of
\* index.embeddings that starts with "<file>:" is the id of a chunk in that
\* file's current chunk list, and there is no such key when the file has no
\* chunk list.
C1_NoOrphanedEmbeddings ==
  (index # NoIndex /\ ~UpdateInProgress) =>
    \A f \in Files : \A key \in DOMAIN index.embeddings :
      KeyOfFile(key, f) => key \in IdsOf(index, f)

\* C3: whenever the index is being built or rebuilt (the initial scan, the
\* reconciliation after a load, an update started by the watcher), every
\* search request is answered "indexing in progress".
Rebuilding ==
  \/ initPc \in {"scanList", "scanning"}
  \/ UpdateInProgress

C3_RejectedWhileIndexing ==
  Rebuilding =>
    \A mode \in Modes : \A query \in Queries :
      handleSearchDocs(index, isIndexing, embeddingsState, mode, query)
        = "indexing in progress"

\* the reconciliation lost the race against the timeout and is still running
Abandoned == initPc \notin {"race", "saveV"} /\ tasks[0].st \in {"listing", "embed"}

\* C4: from the moment the timeout wins the race, the abandoned
\* reconciliation makes no further change to the in-memory index: a step of
\* it leaves index as it is.
C4_AbandonedSyncChangesNothing ==
  [][(Abandoned /\ tasks'[0] # tasks[0]) => index' = index]_vars

\* the counts of a serialized index agree with its entries
RECURSIVE SumEntries(_)
SumEntries(entries) ==
  IF entries = <<>> THEN 0 ELSE Len(Head(entries)[2]) + SumEntries(Tail(entries))

CountsInSync(serialized) ==
  /\ serialized.fileCount = Len(serialized.chunks)
  /\ serialized.chunkCount = SumEntries(serialized.chunks)

\* C5: in every snapshot that saveIndex writes to disk, metadata.fileCount is
\* the number of keys of chunks and metadata.chunkCount the sum of the
\* lengths of the chunk lists; and so it is in the scan result and in the
\* index at the return of every updateIndexForFiles.
C5_CountsInSync ==
  /\ store.kind = "packed" => CountsInSync(store.data)
  /\ scan.st = "scanned" => CountsInSync(Serialize(scan.index))

\* a later call was given file f, or the watcher holds f for the next batch
GivenAgain(t, f) ==
  \/ InSeq(f, watcher.pending)
  \/ \E u \in 1..MaxBatches : u > t /\ tasks[u].st # "idle" /\ InSeq(f, tasks[u].called)

\* C6: if a file with entries in the index is not on disk when
\* updateIndexForFiles is called with it, then once the call has returned and
\* until the file is given to a later call, chunks has no entry for the file,
\* embeddings no key "<file>:..." and the counts, which are those of the
\* maps whenever no call is running, do not include it.
C6_DeletedFileRemoved ==
  \A t \in 1..MaxBatches : \A f \in Files :
    (/\ tasks[t].st \in {"updated", "done"}
     /\ f \in tasks[t].gone
     /\ ~existsSync(f)
     /\ ~GivenAgain(t, f))
    => /\ f \notin DOMAIN index.chunks
       /\ \A key \in DOMAIN index.embeddings : ~KeyOfFile(key, f)
       /\ ~UpdateInProgress =>
            /\ index.metadata.fileCount = Cardinality(DOMAIN index.chunks)
            /\ index.metadata.chunkCount = TotalChunks(index.chunks)

-----------------------------------------------------------------------------
(* The embedding provider's retry                                          *)

\* initializeModel() calls that have not settled
InFlight == retries + (IF initPc = "embInit" THEN 1 ELSE 0)

\* C10: a search request starts a new initialization attempt only when
\* embeddings are unavailable, the retry interval has elapsed since the last
\* attempt and no attempt is still in flight.
C10_TimedRetry ==
  [][retries' > retries =>
       /\ ~embeddingsState.available
       /\ now - embeddingsState.lastAttempt >= RetryIntervalMs
       /\ InFlight = 0]_vars

-----------------------------------------------------------------------------
(* Storage development: saveIndex then loadIndex on one path               *)

OtherVersion == "0.9.0"

\* the chunk lists a file can have in an index: those of its versions, and
\* the empty list
ChunkListsOf(f) == {processFile(f, DocOf(f, v)) : v \in Versions(f)} \cup {<<>>}

ChunkMaps ==
  {m \in UNION {[S -> UNION {ChunkListsOf(f) : f \in Files}] : S \in SUBSET Files} :
     \A f \in DOMAIN m : m[f] \in ChunkListsOf(f)}

AllIds(m) == UNION {{m[f][i].id : i \in 1..Len(m[f])} : f \in DOMAIN m}

ChunkOfId(m, id) ==
  CHOOSE c \in UNION {{m[f][i] : i \in 1..Len(m[f])} : f \in DOMAIN m} : c.id = id

\* embeddings of some of the chunks, as Float32Arrays
EmbeddingMaps(m) ==
  {[id \in S |-> Float32Array(Embedding(ChunkOfId(m, id).context))] :
     S \in SUBSET AllIds(m)}

CountValues == {0, 1, 7}

InitStore ==
  /\ now = T0
  /\ isIndexing = FALSE
  /\ initPc = "start"
  /\ scan = IdleScan
  /\ tasks = [t \in 0..MaxBatches |-> IdleTask]
  /\ batches = 0
  /\ watcher = [started |-> FALSE, pending |-> <<>>, timer |-> FALSE]
  /\ embeddingsState = [available |-> FALSE, lastAttempt |-> 0]
  /\ retries = 0
  /\ response = "none"
  /\ disk = [f \in Files |-> [v |-> 0, mtime |-> 0]]
  /\ store = NoStore
  /\ fsBudget = 0
  /\ skipped = {}
  /\ ParseIdle
  /\ WatchIdle
  /\ SearchIdle
  /\ LockIdle
  /\ rtStage = "input"
  /\ rtLoaded = NoIndex
  /\ \E m \in ChunkMaps : \E e \in EmbeddingMaps(m) :
       \E version \in {INDEX_VERSION, OtherVersion} :
         \E indexedAt \in {0, T0} : \E fileCount \in CountValues :
           \E chunkCount \in CountValues :
             index = [chunks |-> m, embeddings |-> e,
                      metadata |-> [version |-> version, indexedAt |-> indexedAt,
                                    fileCount |-> fileCount,
                                    chunkCount |-> chunkCount]]

\* await saveIndex(index, indexPath)
Save ==
  /\ rtStage = "input"
  /\ store' = saveIndex(index)
  /\ rtStage' = "saved"
  /\ UNCHANGED <<rtLoaded, parseVars, watchVars, searchVars, lockVars>>
  /\ UNCHANGED <<now, disk, index, isIndexing, initPc, scan, tasks, batches, watcher,
                 embeddingsState, retries, response, fsBudget, skipped>>

\* await loadIndex(indexPath)
LoadBack(lockFails) ==
  /\ rtStage = "saved"
  /\ rtLoaded' = loadIndex(store, lockFails)
  /\ rtStage' = IF lockFails THEN "lockFailed" ELSE "loaded"
  /\ UNCHANGED parseVars
  /\ UNCHANGED watchVars
  /\ UNCHANGED searchVars
  /\ UNCHANGED lockVars
  /\ UNCHANGED engineVars

NextStore ==
  \/ Save
  \/ \E lockFails \in BOOLEAN : LoadBack(lockFails)

SpecStore == InitStore /\ [][NextStore]_vars

\* C7: loadIndex after saveIndex returns an index whose chunks map,
\* embeddings map, indexedAt, fileCount and chunkCount equal those of the
\* saved index, and whose version is the current schema version.
C7_RoundTrip ==
  rtStage = "loaded" => rtLoaded = [index EXCEPT !.metadata.version = INDEX_VERSION]

\* C7 as stated: for every index with any metadata values the loaded index
\* equals the saved one, version included.
C7_RoundTripAnyMetadata ==
  rtStage = "loaded" => rtLoaded = index

C7_Witness ==
  /\ rtStage = "loaded"
  /\ index.metadata.version = INDEX_VERSION
  /\ Cardinality(DOMAIN index.chunks) = 2
  /\ DOMAIN index.embeddings # {}
  /\ index.metadata.fileCount = 7
  /\ rtLoaded = index

-----------------------------------------------------------------------------
(* Startup after a load that fails                                         *)

BadStore(file) ==
  \/ file.kind \in {"missing", "corrupt"}
  \/ file.kind = "packed" /\ file.data.version # INDEX_VERSION

\* startup took the full-scan branch, and no watcher batch has run since
AfterFullScan(pcs) == tasks[0].st = "idle" /\ initPc \in pcs /\ batches = 0

LoadClosed ==
  /\ \A lockFails \in BOOLEAN :
       LET r == loadIndex(store, lockFails)
       IN  /\ (BadStore(store) \/ lockFails) => r = NoIndex
           /\ r # NoIndex => saveIndex(r) = store
  /\ BadStore(store) => tasks[0].st = "idle" /\ initPc \notin {"race", "saveV"}
  /\ initPc \in {"scanList", "scanning"} => isIndexing
  /\ AfterFullScan({"ready"}) => store = saveIndex(index)

LoadStep ==
  (initPc = "load" /\ initPc' # "load") =>
    \/ initPc' = "scanList" /\ isIndexing' /\ index' = createEmptyIndex(now)
    \/ /\ initPc' = "race"
       /\ index' # NoIndex
       /\ index' = loadIndex(store, FALSE)

-----------------------------------------------------------------------------
(* A chunk the provider gave no vector for                                 *)

Found(results, chunk) == \E r \in results : r.id = chunk.id

StillSearchable ==
  index # NoIndex =>
    \A chunk \in SearchChunks(index) :
      (chunk.id \notin DOMAIN index.embeddings /\ chunk.context.sentence # "") =>
        /\ Found(keywordSearch(index, Chars(chunk.context.sentence)), chunk)
        /\ Found(fuzzySearch(index, Chars(chunk.context.sentence)), chunk)

\* the embeddings of a and b agree except at key
SameExceptAt(a, b, key) ==
  \A k \in (DOMAIN a \cup DOMAIN b) \ {key} :
    k \in DOMAIN a /\ k \in DOMAIN b /\ a[k] = b[k]

EmbedStep ==
  /\ \A t \in 0..MaxBatches :
       (tasks[t].st = "embed" /\ tasks'[t] # tasks[t] /\ Len(tasks[t].pending) > 1) =>
         /\ tasks'[t].st = "embed"
         /\ tasks'[t].pending = Tail(tasks[t].pending)
         /\ index'.chunks = index.chunks
         /\ SameExceptAt(index.embeddings, index'.embeddings, Head(tasks[t].pending).id)
  /\ (scan.st = "embed" /\ scan' # scan /\ Len(scan.pending) > 1) =>
       /\ scan'.st = "embed"
       /\ scan'.pending = Tail(scan.pending)
       /\ scan'.index.chunks = scan.index.chunks
       /\ SameExceptAt(scan.index.embeddings, scan'.index.embeddings,
                       Head(scan.pending).id)

\* C9: a chunk for which the provider yielded no vector stays in chunks and
\* is found by exact and by fuzzy search; the resumption after a chunk's
\* await, vector or not, touches no embeddings entry but that chunk's and
\* goes on to the next chunk of the file.
C9_EmbeddingFailureDegradesOnlySemantic == []StillSearchable /\ [][EmbedStep]_vars

C9_Witness ==
  /\ initPc = "ready"
  /\ ~UpdateInProgress
  /\ FileA \in DOMAIN index.chunks
  /\ Len(index.chunks[FileA]) = 2
  /\ ChunkId(FileA, 0) \notin DOMAIN index.embeddings
  /\ ChunkId(FileA, 1) \in DOMAIN index.embeddings
  /\ Found(keywordSearch(index, <<"l">>), index.chunks[FileA][1])

-----------------------------------------------------------------------------
(* A file that cannot be read or parsed                                    *)

\* what a completed call leaves for file f when nothing else writes: the
\* chunks of its current content, or no entry when reading it throws
IndexedAsOnDisk(idx, f) ==
  IF ReadThrows(f) \/ processFile(f, DocOf(f, disk[f].v)) = <<>>
  THEN f \notin DOMAIN idx.chunks /\ ~\E k \in DOMAIN idx.embeddings : KeyOfFile(k, f)
  ELSE f \in DOMAIN idx.chunks /\ idx.chunks[f] = processFile(f, DocOf(f, disk[f].v))

BatchCompleted ==
  /\ (initPc = "scanning" /\ scan.st = "scanned") =>
        /\ \A i \in 1..Len(findDocumentationFiles) :
              IndexedAsOnDisk(scan.index, findDocumentationFiles[i])
        /\ CountsInSync(Serialize(scan.index))
  /\ tasks[0].st = "updated" =>
        /\ \A i \in 1..Len(tasks[0].called) : IndexedAsOnDisk(index, tasks[0].called[i])
        /\ CountsInSync(Serialize(index))

\* a call that has started is at an await or at its end, never ended by a throw
BatchStep ==
  /\ (initPc = "scanList" /\ initPc' = "scanning") => scan'.st \in {"embed", "scanned"}
  /\ (scan.st = "embed" /\ scan' # scan) => scan'.st \in {"embed", "scanned"}
  /\ (tasks[0].st \in {"listing", "embed"} /\ tasks'[0] # tasks[0]) =>
        tasks'[0].st \in {"embed", "updated", "done"}

\* C11: when reading or parsing a file throws during
\* scanAndIndexDocumentation or updateIndexForFiles the file is left out of
\* the index, every other file of the batch holds the chunks of its content
\* when the call ends, the call goes on to its end, and fileCount and
\* chunkCount are recomputed from the maps.
C11_FailingFileSkipped == []BatchCompleted /\ [][BatchStep]_vars

C11_Witness ==
  /\ tasks[0].st = "updated"
  /\ \E i, j \in 1..Len(tasks[0].called) :
        /\ disk[tasks[0].called[i]].v = Unreadable
        /\ tasks[0].called[j] \in DOMAIN index.chunks
        /\ i < j

-----------------------------------------------------------------------------
(* The watcher's debounce                                                  *)

SeqToSet(q) == {q[i] : i \in 1..Len(q)}

Queued ==
  /\ SeqToSet(watcher.pending) = wAccepted
  /\ Len(watcher.pending) = Cardinality(wAccepted)
  /\ watcher.timer <=> watcher.pending # <<>>

DebounceStep ==
  /\ batches' > batches =>
        /\ now - wAcceptedAt >= BATCH_DELAY_MS
        /\ SeqToSet(wBatch') = wAccepted
        /\ Len(wBatch') = Cardinality(wAccepted)
        /\ wBatch' # <<>>
        /\ watcher'.pending = <<>>
  /\ wEvents' > wEvents =>
        IF extname(wLast'.path) \in DOC_EXTENSIONS
        THEN /\ wDue' = now + BATCH_DELAY_MS
             /\ watcher'.timer
             /\ wLast'.path \in SeqToSet(watcher'.pending)
        ELSE watcher' = watcher /\ wDue' = wDue

\* C12: onChange is called only when BATCH_DELAY_MS have passed since the
\* last queued event; every queued event sets the timer anew; one call
\* delivers the paths queued since the previous flush, each once; an event
\* for a file without a documentation extension changes neither the queue
\* nor the timer.
C12_Debounce == []Queued /\ [][DebounceStep]_vars

C12_Witness ==
  /\ batches = 1
  /\ Len(wBatch) = 2
  /\ FileUpper \in SeqToSet(wBatch)
  /\ wEvents = MaxWatchEvents
  /\ wLast.path = FileJs
  /\ wLast.at > wAcceptedAt

-----------------------------------------------------------------------------
(* Exact search                                                            *)

Answered(mode) == sStage = "answered" /\ sMode = mode

\* the answer is not cut by the limit
Untruncated == sLimit >= Cardinality(SearchChunks(index))

InContext(chunk) ==
  Includes(LowerWords(ContextWords(chunk.context)), toLowerCase(sQuery))
InHeading(chunk) ==
  \E i \in 1..Len(chunk.hierarchy) :
    IsInfix(toLowerCase(sQuery), toLowerCase(Chars(chunk.hierarchy[i])))
InText(chunk) ==
  Includes(LowerWords(ContextWords(chunk.context)
                      \o [i \in 1..Len(chunk.hierarchy) |-> Chars(chunk.hierarchy[i])]
                      \o ContentWords(chunk.content)),
           toLowerCase(sQuery))

ExactTier(chunk) ==
  IF InContext(chunk) THEN [score |-> 900, reason |-> <<"context match">>]
  ELSE IF InHeading(chunk) THEN [score |-> 800, reason |-> <<"heading match">>]
  ELSE IF InText(chunk) THEN [score |-> 600, reason |-> <<"content match">>]
  ELSE [score |-> 0, reason |-> <<>>]

ResultsFor(chunk) == {i \in 1..Len(sResults) : sResults[i].chunk = chunk}

-----------------------------------------------------------------------------
(* Hybrid search                                                           *)

SemanticHit(chunk) ==
  /\ sVector # NoVector
  /\ chunk.id \in DOMAIN index.embeddings
  /\ AboveThreshold(sVector, index.embeddings[chunk.id])

SemanticScore(chunk) == cosineSimilarity(sVector, index.embeddings[chunk.id])

HybridOf(chunk) ==
  IF ExactTier(chunk).score > 0 /\ SemanticHit(chunk)
  THEN [score |-> ExactTier(chunk).score + SemanticScore(chunk),
        reason |-> ExactTier(chunk).reason \o <<"semantic similarity">>]
  ELSE IF SemanticHit(chunk)
  THEN [score |-> SemanticScore(chunk), reason |-> <<"semantic similarity">>]
  ELSE ExactTier(chunk)

HybridCombined ==
  \A chunk \in SearchChunks(index) :
    IF matchesFilters(chunk, sFilters) /\ HybridOf(chunk).score > 0
    THEN /\ Cardinality(ResultsFor(chunk)) = 1
         /\ \A i \in ResultsFor(chunk) :
               /\ sResults[i].score = HybridOf(chunk).score
               /\ sResults[i].match_reason = HybridOf(chunk).reason
    ELSE ResultsFor(chunk) = {}

\* C14: in semantic mode every chunk found by exact or by semantic search is
\* in the result once before truncation; found by both, its score is the
\* exact score plus the cosine similarity and its reason the exact reason
\* followed by "semantic similarity"; found by one, it keeps that strategy's
\* score and reason.
C14_HybridCombination == (Answered("semantic") /\ Untruncated) => HybridCombined

\* two chunks of the index share an id
DuplicateIds ==
  \E c, d \in SearchChunks(index) : c # d /\ c.id = d.id

\* the same where chunk ids are unique
C14_HybridUniqueIds ==
  (Answered("semantic") /\ Untruncated /\ ~DuplicateIds) => HybridCombined

-----------------------------------------------------------------------------
(* Filter, rank, truncate                                                  *)

\* the file matches filters.filePattern and the context contains one of
\* filters.category; a filter that is not given accepts every chunk
PassesFilters(chunk) ==
  /\ sFilters.filePattern # NoPattern => minimatch(chunk.file, sFilters.filePattern)
  /\ sFilters.category # <<>> =>
        \E c \in 1..Len(sFilters.category) :
          Includes(LowerWords(ContextWords(chunk.context)),
                   toLowerCase(sFilters.category[c]))

\* the score the mode of the request gives a chunk, 0 when it is no match
ModeScore(chunk) ==
  IF sMode = "exact" THEN ExactTier(chunk).score
  ELSE IF sMode = "fuzzy"
  THEN (IF Greater(FuzzyBest(chunk, toLowerCase(sQuery)), <<6, 10>>)
        THEN Thousandths(FuzzyBest(chunk, toLowerCase(sQuery))) ELSE 0)
  ELSE HybridOf(chunk).score

Matches == {chunk \in SearchChunks(index) : PassesFilters(chunk) /\ ModeScore(chunk) > 0}

FirstOfRanking ==
  /\ Len(sResults) = (IF sLimit < Cardinality(Matches) THEN sLimit
                      ELSE Cardinality(Matches))
  /\ \A i \in 1..Len(sResults) :
        /\ sResults[i].chunk \in Matches
        /\ sResults[i].score = ModeScore(sResults[i].chunk)
        /\ ResultsFor(sResults[i].chunk) = {i}
        /\ \A j \in i..Len(sResults) : sResults[i].score >= sResults[j].score
        /\ \A chunk \in Matches :
              ResultsFor(chunk) = {} => ModeScore(chunk) <= sResults[i].score

\* C15: in every mode and for every limit >= 0 the answer is the first
\* `limit` entries of the ranking of the chunks that pass the filters: it has
\* min(limit, number of matches) entries, each a match with its score, in
\* non-increasing order of score, and no omitted match scores higher than a
\* returned one.
C15_FilterRankTruncate == sStage = "answered" => FirstOfRanking

\* the same where chunk ids are unique
C15_RankingUniqueIds == (sStage = "answered" /\ ~DuplicateIds) => FirstOfRanking

\* a truncated answer over unique ids
C15_TruncatedAnswer ==
  /\ sStage = "answered" /\ ~DuplicateIds
  /\ sLimit = 1 /\ Cardinality(Matches) > 1
  /\ \E chunk \in Matches : ModeScore(chunk) < sResults[1].score

-----------------------------------------------------------------------------
(* The minScore filter                                                     *)

\* C16: a search issued with filters.minScore = m returns only results whose
\* score is at least m (scores and m in thousandths).
C16_MinScore ==
  sStage = "answered" =>
    \A i \in 1..Len(sResults) : sResults[i].score >= sFilters.minScore

-----------------------------------------------------------------------------
(* Chunk sizes after mergeSmallChunks and splitLargeChunks                 *)

\* C17: every chunk mergeSmallChunks returns, other than the last one, has an
\* estimated token count of at least minTokens.
C17_MergedAtLeastMin ==
  pStage = "merged" =>
    \A i \in 1..(Len(pChunks) - 1) :
      estimateTokenCount(pChunks[i].content) >= MinTokens

WithinMax(chunk) == estimateTokenCount(chunk.content) <= MaxTokens

SingleParagraph(chunk) == Len(SplitParagraphs(chunk.content)) = 1

\* piece is what splitLargeChunks made of chunk: the chunk itself when it is
\* within maxTokens, else consecutive lines of it under the same heading
\* path and chunk type
PieceOf(piece, chunk) ==
  IF WithinMax(chunk) THEN piece = chunk
  ELSE /\ piece.headings = chunk.headings
       /\ piece.chunkType = chunk.chunkType
       /\ IsInfix(piece.content, chunk.content)

SplitStep ==
  (pStage = "merged" /\ pStage' = "split") =>
    /\ \A j \in 1..Len(pChunks') :
          /\ WithinMax(pChunks'[j]) \/ SingleParagraph(pChunks'[j])
          /\ \E i \in 1..Len(pChunks) : PieceOf(pChunks'[j], pChunks[i])
    /\ \A i \in 1..Len(pChunks) :
          WithinMax(pChunks[i]) => \E j \in 1..Len(pChunks') : pChunks'[j] = pChunks[i]
    /\ (\A i \in 1..Len(pChunks) : WithinMax(pChunks[i])) => pChunks' = pChunks

\* C18: every chunk splitLargeChunks returns is within maxTokens or is one
\* blank-line-delimited paragraph that alone exceeds maxTokens; a chunk within
\* maxTokens passes through unchanged; every piece of a split chunk has the
\* heading path and the chunk type of the chunk it was cut from.
C18_SplitAtMostMax == [][SplitStep]_vars

\* a chunk of two paragraphs was split, and its first piece is a paragraph
\* that alone exceeds maxTokens
C18_Witness ==
  /\ pStage = "split"
  /\ Len(mergeSmallChunks(ParseByExt(pExt, pDoc), MinTokens)) = 1
  /\ Len(pChunks) = 2
  /\ ~WithinMax(pChunks[1]) /\ SingleParagraph(pChunks[1])
  /\ WithinMax(pChunks[2])

-----------------------------------------------------------------------------
(* RST heading levels                                                      *)

\* 'Title' underlined with first, 'Section' underlined with second
TitleSection(first, second) ==
  <<Text("t", ShortLen), Rule(first, ShortLen), Text("S", ShortLen), Rule(second, ShortLen)>>

SwapChar(ch) == IF ch = "=" THEN "-" ELSE IF ch = "-" THEN "=" ELSE ch

\* the document with the adornment characters '=' and '-' exchanged
SwapDoc(doc) ==
  [i \in 1..Len(doc) |->
     IF doc[i].k = "rule" THEN Rule(SwapChar(doc[i].c), doc[i].n) ELSE doc[i]]

\* heading paths and line ranges of the chunks; a heading whose text is an
\* adornment line is compared up to the exchange
PathsOf(chunks, swapped) ==
  [i \in 1..Len(chunks) |->
     [headings |-> [h \in 1..Len(chunks[i].headings) |->
                      IF swapped THEN SwapChar(chunks[i].headings[h])
                      ELSE chunks[i].headings[h]],
      startLine |-> chunks[i].startLine,
      endLine |-> chunks[i].endLine]]

\* C19: parseRST assigns heading levels in the order in which the underline
\* characters are first seen, whatever the characters are: exchanging the
\* characters of a document leaves the heading paths as they are, and
\* 'Title' underlined with '=' (or '-') followed by 'Section' underlined with
\* '-' (or '=') yields exactly two chunks, the second with heading path
\* <<'Title', 'Section'>>.
C19_LevelsByDiscovery ==
  (pStage = "parsed" /\ pExt = ".rst") =>
    /\ PathsOf(pChunks, FALSE) = PathsOf(parseRST(SwapDoc(pDoc)), TRUE)
    /\ pDoc \in {TitleSection("=", "-"), TitleSection("-", "=")} =>
          /\ Len(pChunks) = 2
          /\ pChunks[1].headings = <<"t">>
          /\ pChunks[2].headings = <<"t", "S">>

C19_Witness ==
  /\ pStage = "parsed" /\ pExt = ".rst"
  /\ pDoc = TitleSection("-", "=")
  /\ Len(pChunks) = 2

-----------------------------------------------------------------------------
(* Single writer                                                           *)

\* the calls of updateIndexForFiles that have started and not returned:
\* 0 is the call of validateAndSyncIndex, 1.. are the watcher's batches
Updating == {t \in 0..MaxBatches : tasks[t].st = "embed"}

ScanRunning == initPc \in {"scanList", "scanning"}

\* validateAndSyncIndex has not returned
SyncRunning == tasks[0].st \in {"listing", "embed"}

\* C20: at any time at most one control path is mutating the in-memory
\* index: while the watcher is started neither the full scan nor the
\* validation sync is still running, and no two updateIndexForFiles calls
\* started by the watcher are in progress together.
C20_SingleWriter ==
  /\ Cardinality(Updating) + (IF ScanRunning THEN 1 ELSE 0) <= 1
  /\ watcher.started => ~ScanRunning /\ ~SyncRunning

-----------------------------------------------------------------------------
(* Persistence under the lock                                              *)

\* the call of p is inside the callback given to withLock
InCallback(p) == calls[p].pc \in {"locked", "writing"}

Exclusive ==
  /\ \A p, q \in LockProcs : (InCallback(p) /\ InCallback(q)) => p = q
  /\ \A p \in LockProcs : InCallback(p) <=> lockHolder = p

\* the file changes only in the callback of a saveIndex that holds the lock,
\* and a loadIndex reads it holding the lock while no saveIndex is writing
LockedStep ==
  /\ store' # store =>
        \E p \in LockProcs : lockHolder = p /\ calls[p].op = "save" /\ InCallback(p)
  /\ \A p \in LockProcs :
        (calls[p].op = "load" /\ calls[p].pc = "locked" /\ calls'[p].pc = "done") =>
          /\ lockHolder = p
          /\ \A q \in LockProcs : calls[q].pc # "writing"

\* C21: every write and every read of the persisted file happens inside
\* withLock on the index path, and the lock is released on every way out of
\* the callback, a throw included: at most one saveIndex is writing at a
\* time, and no loadIndex reads the file while a saveIndex has written only
\* a part of it.
C21_PersistenceExclusive == []Exclusive /\ [][LockedStep]_vars

\* a loadIndex waits for the lock while the saveIndex of the other process
\* has written a part of the file
C21_Witness ==
  \E p, q \in LockProcs :
    /\ calls[p].op = "load" /\ calls[p].pc = "acquire"
    /\ calls[q].op = "save" /\ calls[q].pc = "writing"
    /\ lockHolder = q /\ store = PartialStore

-----------------------------------------------------------------------------
(* Embeddings and the chunks they belong to                                *)

\* C22: whenever no update is in progress, the vector stored under the id of
\* a chunk of the index is the embedding of that chunk's context, never one
\* computed for an earlier content of the file, also after overlapping
\* updates of the same file.
C22_NoStaleEmbeddings ==
  (index # NoIndex /\ ~UpdateInProgress) =>
    \A f \in DOMAIN index.chunks : \A i \in 1..Len(index.chunks[f]) :
      index.chunks[f][i].id \in DOMAIN index.embeddings =>
        index.embeddings[index.chunks[f][i].id]
          = Float32Array(Embedding(index.chunks[f][i].context))

-----------------------------------------------------------------------------
(* Drift between the persisted index and the files                         *)

\* initialize() has returned, no update is running and the watcher holds
\* nothing: the process can stop here and start again later
Quiescent ==
  /\ initPc = "ready"
  /\ \A t \in 0..MaxBatches : tasks[t].st \in {"idle", "done"}
  /\ ~watcher.timer /\ watcher.pending = <<>>

\* the chunks that idx holds for f are not those of f's content on disk
Drifted(idx, f) ==
  /\ existsSync(f) /\ ~ReadThrows(f)
  /\ idx.chunks[f] # processFile(f, DocOf(f, disk[f].v))

\* what validateAndSyncIndex would queue for the index loaded from the file
QueuedBySync(loaded) ==
  NewOrModified(findDocumentationFiles, loaded, loaded.metadata.indexedAt)

\* C23: every file of the persisted index whose content on disk was changed
\* after the content of its chunks was read is queued for update by the next
\* validateAndSyncIndex.
C23_DriftQueued ==
  (Quiescent /\ loadIndex(store, FALSE) # NoIndex) =>
    \A f \in DOMAIN loadIndex(store, FALSE).chunks :
      Drifted(loadIndex(store, FALSE), f) => InSeq(f, QueuedBySync(loadIndex(store, FALSE)))

-----------------------------------------------------------------------------
(* The end of startup                                                      *)

StartupReady == index # NoIndex /\ ~isIndexing /\ watcher.started

\* initialize() has settled: it returned, or it rejected into main's catch
StartupSettled == initPc \in {"ready", "failed"}

\* C24: on every startup path, the failure of the scan or of saveIndex
\* included, initialization ends with a non-null index, isIndexing = false
\* and the file watcher started: once no step of startup is left, the
\* server is Ready and watching.
C24_StartupEndsWatching == StartupHalted => StartupReady

\* under SpecStartupFair startup always settles, and with a non-null index
\* and isIndexing = false
C24_StartupSettles ==
  <>StartupSettled /\ [](StartupSettled => (index # NoIndex /\ ~isIndexing))

-----------------------------------------------------------------------------
(* No watcher event is lost or duplicated                                  *)

\* a flush hands over a non-empty batch without duplicates and empties the
\* pending set
FlushStep ==
  batches' > batches =>
    /\ wBatch' # <<>>
    /\ Cardinality(SeqToSet(wBatch')) = Len(wBatch')
    /\ SeqToSet(wBatch') = SeqToSet(watcher.pending)
    /\ watcher'.pending = <<>>

Delivered(filePath) == InSeq(filePath, wBatch) /\ ~InSeq(filePath, watcher.pending)

\* C25: when the events stop for BATCH_DELAY_MS and stop() is not called,
\* every path queueChange accepted is eventually passed to onChange, in one
\* batch of its burst: a flush empties the pending set and never runs with
\* an empty one.
C25_NoEventLost ==
  /\ \A filePath \in WatchPaths :
        InSeq(filePath, watcher.pending) ~> Delivered(filePath)
  /\ [][FlushStep]_vars

\* two bursts have been flushed, the second after the last event
C25_Witness ==
  /\ batches = 2
  /\ wEvents = MaxWatchEvents
  /\ watcher.pending = <<>> /\ ~watcher.timer
  /\ InSeq(wLast.path, wBatch)

-----------------------------------------------------------------------------
(* The heading stack of the Markdown, AsciiDoc and RST parsers             *)

HeadingParsers == {".md", ".adoc", ".rst"}

\* lines a heading takes from its title on: RST adds the underline
HeadingSpan(ext) == IF ext = ".rst" THEN 2 ELSE 1

LoopStack(ext, lines) ==
  IF ext = ".md" THEN MarkdownLoop(lines, 0, ParseStart).stack
  ELSE IF ext = ".adoc" THEN AsciiDocLoop(lines, 0, ParseStart).stack
  ELSE RSTLoop(lines, 0, ParseStart).stack

\* headingStack when the loop has gone through the first n lines; a line is
\* judged on itself and its two neighbours, so the loop over the first n
\* lines is the loop over the whole file up to the line before the last
StackAfter(ext, lines, n) ==
  IF n <= 0 THEN <<>> ELSE LoopStack(ext, SubSeq(lines, 1, n))

\* line h was taken as a heading: it is the line of the stack's top entry
\* right after it
HeadingAt(ext, lines, h) ==
  /\ h >= 0
  /\ h + HeadingSpan(ext) <= Len(lines)
  /\ StackAfter(ext, lines, h + HeadingSpan(ext)) # <<>>
  /\ StackAfter(ext, lines, h + HeadingSpan(ext))
        [Len(StackAfter(ext, lines, h + HeadingSpan(ext)))].line = h

\* the heading line that opened chunk c (an RST chunk starts one line
\* earlier, at the overline), -1 for the chunk before the first heading
OpenLine(ext, lines, c) ==
  IF HeadingAt(ext, lines, c.startLine) THEN c.startLine
  ELSE IF HeadingAt(ext, lines, c.startLine + 1) /\ c.endLine > c.startLine
       THEN c.startLine + 1
       ELSE -1

StackIncreasing(stack) ==
  \A i \in 1..(Len(stack) - 1) : stack[i].level < stack[i + 1].level

StackTexts(stack) == [i \in 1..Len(stack) |-> stack[i].text]

\* stack is before with every entry of level >= the new heading's
\* removed and the new heading on top
PoppedThenPushed(before, stack) ==
  stack = Append(SelectSeq(before, LAMBDA e : e.level < stack[Len(stack)].level),
                 stack[Len(stack)])

\* C26: in the Markdown, AsciiDoc and RST parsers each new heading pops
\* every stack entry whose level is >= its own and is then pushed, so the
\* levels on the stack strictly increase from bottom to top; the heading
\* path of each chunk is the stack at the moment the chunk was opened,
\* outermost first and ending with the heading that opened it, empty
\* before the first heading, whatever headings follow.
C26_HeadingStack ==
  (pStage = "parsed" /\ pExt \in HeadingParsers) =>
    /\ \A n \in 1..Len(pDoc) : StackIncreasing(StackAfter(pExt, pDoc, n))
    /\ \A h \in 0..(Len(pDoc) - 1) :
         HeadingAt(pExt, pDoc, h) =>
           /\ PoppedThenPushed(StackAfter(pExt, pDoc, h),
                               StackAfter(pExt, pDoc, h + HeadingSpan(pExt)))
           /\ StackAfter(pExt, pDoc, h + HeadingSpan(pExt))
                 [Len(StackAfter(pExt, pDoc, h + HeadingSpan(pExt)))].text
               = pDoc[h + 1].t
    /\ \A k \in 1..Len(pChunks) :
         pChunks[k].headings =
           IF OpenLine(pExt, pDoc, pChunks[k]) < 0 THEN <<>>
           ELSE StackTexts(StackAfter(pExt, pDoc,
                  OpenLine(pExt, pDoc, pChunks[k]) + HeadingSpan(pExt)))

\* a chunk under two headings is followed by a chunk whose heading popped
\* them both
C26_Witness ==
  /\ pStage = "parsed"
  /\ pExt \in HeadingParsers
  /\ \E k \in 1..(Len(pChunks) - 1) :
       /\ Len(pChunks[k].headings) = 2
       /\ Len(pChunks[k + 1].headings) = 1

-----------------------------------------------------------------------------
(* Line spans of the chunks of a file                                      *)

SpanInFile(c, lines) ==
  /\ 0 <= c.startLine
  /\ c.startLine <= c.endLine
  /\ c.endLine < Len(lines)

StartsAtContent(c, lines) == LineAt(lines, c.startLine) = c.content[1]

SpansIncreasing(chunks) ==
  \A k \in 1..(Len(chunks) - 1) : chunks[k].endLine < chunks[k + 1].startLine

\* C27: for every chunk the parse -> merge -> split pipeline produces from a
\* file, 0 <= startLine <= endLine < number of lines of the file, line
\* startLine of the file is the first line of the chunk's content, and the
\* spans of the file's chunks are pairwise disjoint and strictly increasing
\* in document order.
C27_LineSpans ==
  pStage = "split" =>
    /\ \A k \in 1..Len(pChunks) :
         SpanInFile(pChunks[k], pDoc) /\ StartsAtContent(pChunks[k], pDoc)
    /\ SpansIncreasing(pChunks)

-----------------------------------------------------------------------------
(* The index after the reconciliation and the files the scanner finds      *)

\* validateAndSyncIndex has completed
SyncCompleted == tasks[0].st = "updated"

\* C28: after a completed validateAndSyncIndex every file with an entry in
\* index.chunks is a file the scanner currently discovers (it exists, no
\* ignore rule matches it, its extension is recognised and it is smaller
\* than 5 MiB), whatever preceded.
C28_IndexWithinScan ==
  SyncCompleted => DOMAIN index.chunks \subseteq SeqToSet(findDocumentationFiles)

-----------------------------------------------------------------------------
(* A file whose reprocessing throws                                        *)

\* the chunk list of file g and the embeddings under its chunk ids
EntriesOf(idx, g) ==
  [chunks |-> IF g \in DOMAIN idx.chunks THEN idx.chunks[g] ELSE <<>>,
   embeddings |-> [k \in {x \in DOMAIN idx.embeddings : KeyOfFile(x, g)} |->
                     idx.embeddings[k]]]

NoEntries == [chunks |-> <<>>, embeddings |-> <<>>]

\* processFile throws for f inside the try of updateIndexForFiles
FailsToReprocess(f) == existsSync(f) /\ ReadThrows(f)

-----------------------------------------------------------------------------
(* What updateIndexForFiles leaves alone                                   *)

\* the step leaves the chunk list of g and every embedding keyed by one of
\* g's chunk ids as they are
SameEntries(g) ==
  /\ (g \in DOMAIN index'.chunks) = (g \in DOMAIN index.chunks)
  /\ g \in DOMAIN index.chunks => index'.chunks[g] = index.chunks[g]
  /\ \A id \in IdsOf(index, g) :
       /\ (id \in DOMAIN index'.embeddings) = (id \in DOMAIN index.embeddings)
       /\ id \in DOMAIN index.embeddings =>
            index'.embeddings[id] = index.embeddings[id]

\* a step of the call updateIndexForFiles(index, F) of task t
FrameStep ==
  \A t \in 0..MaxBatches :
    (tasks'[t] # tasks[t] /\ index # NoIndex /\ index' # index) =>
      \A g \in FramePaths \ SeqToSet(tasks'[t].called) : SameEntries(g)

\* C30: updateIndexForFiles(index, F) changes only entries of files in F:
\* for every path g not in F, also one that begins with some f in F
\* followed by ":", the chunk list of g and every embedding keyed by one
\* of g's chunk ids are left as they were.
C30_UpdateFrame == [][FrameStep]_vars

====
